---- MODULE Spec2Model ----
(***************************************************************************)
(* Model of the video post-production pipeline of the editor backend:      *)
(* the /process-video and /apply-transitions handlers, the in-memory       *)
(* progress tracker, the per-request artifacts on disk, the keep-segment   *)
(* builders and trim functions of the silence and filler-word stages, the  *)
(* zoom expressions and the filter of applyZoomEffect, the file names of   *)
(* two requests in flight, the functions generateASS,                      *)
(* addBackgroundAudio, addTransition, detectSilence, detectFillerWords     *)
(* and fillerWordTrim, each called once from the initial state, the        *)
(* deletions at the end of a run, and the requests of transcribeAudio to   *)
(* the transcription service.                                              *)
(*                                                                         *)
(* A handler is an async function: the code between two awaits runs        *)
(* without interruption, so every action below is one such piece: it       *)
(* receives the outcome of the awaited call and runs the handler up to     *)
(* the next await (or to the response).  The media engine and the           *)
(* transcription service are outside the program: their outcome is a       *)
(* nondeterministic input of the action; an invocation that fails hands    *)
(* no artifact to the handler.                                             *)
(***************************************************************************)
EXTENDS Integers, Sequences, FiniteSets, TLC

\* ---------------------------------------------------------------- bounds
MaxTrans == 2      \* longest transitions array of a request
MaxAudios == 2     \* longest audios array of a request
MaxDur == 5        \* largest time handed to buildKeepSegments (seconds)
MaxSegs == 2       \* longest removal list handed to buildKeepSegments
MaxTime == 9       \* largest time of a silence (hundredths of a second)
MaxPad == 1        \* largest paddingAroundSpeech (hundredths of a second)
MaxZoomTime == 4   \* largest durationSec of a zoom, in time steps
MaxClock == 2      \* last millisecond of the clock while two requests run
MaxCues == 2       \* segments of a transcription handed to generateASS
MaxOverlay == 3    \* seconds of the clip and of the track of an overlay
MaxStderr == 3     \* last time at which the engine reports a silence
MaxClip == 4       \* hundredths of a second of the clip that is zoomed
MaxSamples == 5    \* RMS levels in the trace of detectFillerWords

Ids == {"r1", "r2"}
NoId == "undefined"
Times == {1, 3}     \* the times a transition item may carry (seconds)

\* ------------------------------------------------------------- artifacts
\* A path is <<kind, index>>; NoPath is an undefined outputPath.
NoPath == <<"undefined", 0>>
Upload == <<"upload", 0>>
TrimmedPath == <<"trimmed", 0>>
FillerTrimmedPath == <<"filler-trimmed", 0>>
ExtractedAudioPath == <<"audio-extract", 0>>
ZoomedPath == <<"simple-zoom", 0>>
TransitionStepOut(n) == <<"transition", n>>
AudioStepOut(n) == <<"audio", n>>
AssPath == <<"subtitles", 0>>
OutputVideoPath == <<"with-subtitles", 0>>

VARIABLES
  pc,                    \* the await the handler is suspended at
  route,                 \* which handler runs
  requestId,             \* req.body.requestId
  progressMap,           \* the tracker: request id -> ProgressState
  percentLog,            \* percent values this run passed to updateProgress
  files,                 \* paths that exist on disk
  videoPath,             \* req.file.path
  processedVideoPath,    \* the current artifact
  trimResult, fillerTrimResult, audioResult, zoomResult,
  transcriptionSegments, \* number of segments returned
  transitions,           \* req.body.transitions: the time of each item
  sorted,                \* item numbers in the order of the sort
  audios,                \* length of req.body.audios
  i,                     \* loop index of the list stage in progress
  stageLog,              \* the stage invocations made, with their input
  responses,             \* the responses sent
  fillerSegments, totalDuration, keepSegments, ksDone,
                         \* buildKeepSegments: arguments and result
  silenceSegments,       \* what detectSilence returned
  padding,               \* paddingAroundSpeech
  silenceKeepSegments,   \* keepSegments of silenceTrim
  silenceTrimReturn,     \* what silenceTrim returned
  fillerTrimReturn,      \* what fillerWordTrim returned
  silenceDone,           \* the silence buildKeepSegments has returned
  easing, startZoom, endZoom, durationSec,
                         \* applyZoomEffect: the options in use
  timeProgress, easingExpr, zExpr,
                         \* applyZoomEffect: the expressions it has built
  lastCall,              \* the last call on the tracker and what it returned
  now,                   \* Date.now()
  conc,                  \* two requests in flight: where each is, its paths
  disk,                  \* the files of the two requests that exist
  assCall,               \* generateASS: the transcription and the file written
  overlayCall,           \* addBackgroundAudio: its arguments and what it did
  transitionCall,        \* addTransition: its arguments and what it did
  detectCall,            \* detectSilence inside silenceTrim: exit and result
  fillerDetectCall,      \* detectFillerWords: the trace and the segments
  zoomGraphCall,         \* applyZoomEffect: the durations and the filter
  fillerStageCall,       \* fillerWordTrim: how its runs ended, what it left
  poll                   \* transcribeAudio: where it is, the service's status

vars == << pc, route, requestId, progressMap, percentLog, files, videoPath,
           processedVideoPath, trimResult, fillerTrimResult, audioResult,
           zoomResult, transcriptionSegments, transitions, sorted, audios, i,
           stageLog, responses, fillerSegments, totalDuration, keepSegments,
           ksDone, silenceSegments, padding, silenceKeepSegments,
           silenceTrimReturn, fillerTrimReturn, silenceDone, easing, startZoom,
           endZoom, durationSec, timeProgress, easingExpr, zExpr, lastCall, now,
           conc, disk, assCall, overlayCall, transitionCall, detectCall,
           fillerDetectCall, zoomGraphCall, fillerStageCall, poll >>

\* ------------------------------------------------------- progress tracker
EmptyMap == [id \in {} |-> 0]

DefaultState == [percent |-> 0, message |-> "", done |-> FALSE]

\* an update that replaces the stored state
MergeReplace(current, update) == update

\* { ...current, ...update }
Merge(current, update) ==
  [k \in DOMAIN current \cup DOMAIN update |->
     IF k \in DOMAIN update THEN update[k] ELSE current[k]]

\* a map that stores the new state under every key it holds
MapSetAll(m, id, v) == [x \in DOMAIN m \cup {id} |-> v]

MapSet(m, id, v) == [x \in DOMAIN m \cup {id} |-> IF x = id THEN v ELSE m[x]]

updateProgress(m, id, update) ==
  IF id = NoId THEN m
  ELSE LET current == IF id \in DOMAIN m THEN m[id] ELSE DefaultState
       IN MapSet(m, id, Merge(current, update))

Progress(p, msg) == [percent |-> p, message |-> msg, done |-> FALSE]
Failed(msg, err) == [percent |-> 100, message |-> msg, done |-> TRUE, error |-> err]
Completed == [percent |-> 100, message |-> "Completed", done |-> TRUE]

\* ------------------------------------------------------------ the handler
\* The handler's state as one record, so that the pieces of code compose.
St == [pc |-> pc, route |-> route, requestId |-> requestId,
       progressMap |-> progressMap, percentLog |-> percentLog, files |-> files,
       videoPath |-> videoPath, processedVideoPath |-> processedVideoPath,
       trimResult |-> trimResult, fillerTrimResult |-> fillerTrimResult,
       audioResult |-> audioResult, zoomResult |-> zoomResult,
       transcriptionSegments |-> transcriptionSegments,
       transitions |-> transitions, sorted |-> sorted, audios |-> audios,
       i |-> i, stageLog |-> stageLog, responses |-> responses]

Become(s) ==
  /\ pc' = s.pc /\ route' = s.route /\ requestId' = s.requestId
  /\ progressMap' = s.progressMap /\ percentLog' = s.percentLog
  /\ files' = s.files /\ videoPath' = s.videoPath
  /\ processedVideoPath' = s.processedVideoPath
  /\ trimResult' = s.trimResult /\ fillerTrimResult' = s.fillerTrimResult
  /\ audioResult' = s.audioResult /\ zoomResult' = s.zoomResult
  /\ transcriptionSegments' = s.transcriptionSegments
  /\ transitions' = s.transitions /\ sorted' = s.sorted /\ audios' = s.audios
  /\ i' = s.i /\ stageLog' = s.stageLog /\ responses' = s.responses

ksVars == << fillerSegments, totalDuration, keepSegments, ksDone >>

handlerVars ==
  << pc, route, requestId, progressMap, percentLog, files, videoPath,
     processedVideoPath, trimResult, fillerTrimResult, audioResult, zoomResult,
     transcriptionSegments, transitions, sorted, audios, i, stageLog,
     responses >>

\* the variables of the trim functions
trimVars ==
  << silenceSegments, padding, silenceKeepSegments, silenceTrimReturn,
     fillerTrimReturn, silenceDone >>

\* the variables of applyZoomEffect
zoomVars ==
  << easing, startZoom, endZoom, durationSec, timeProgress, easingExpr, zExpr >>

\* the variables of the functions called on their own
callVars ==
  << assCall, overlayCall, transitionCall, detectCall, fillerDetectCall,
     zoomGraphCall, fillerStageCall, poll >>

\* what the handlers leave alone
pureVars == << ksVars, trimVars, zoomVars, lastCall, now, conc, disk, callVars >>

NoResult == [success |-> FALSE, outputPath |-> NoPath]

\* updateProgress(requestId, update) as the handler calls it
Update(s, update) ==
  [s EXCEPT !.progressMap = updateProgress(@, s.requestId, update),
            !.percentLog = IF s.requestId = NoId THEN @
                           ELSE Append(@, update.percent)]

\* the call of a stage on an artifact, awaited
Invoke(s, stage, item, input) ==
  [s EXCEPT !.stageLog = Append(@, [stage |-> stage, item |-> item,
                                    input |-> input, result |-> "pending",
                                    output |-> NoPath]),
            !.pc = stage]

\* the awaited call has returned output (result "ok") or has failed
Settle(s, result, output) ==
  [s EXCEPT !.stageLog[Len(s.stageLog)].result = result,
            !.stageLog[Len(s.stageLog)].output = output]

Returned(s, output) == Settle(s, "ok", output)
Threw(s) == Settle(s, "failed", NoPath)

\* res.status(status).json(...)
Respond(s, status, success, error) ==
  [s EXCEPT !.responses = Append(@, [status |-> status, success |-> success,
                                     error |-> error]),
            !.pc = "done"]

\* a catch block that answers but leaves the tracker as it was
CatchWithoutTracker(s) ==
  Respond(s, 500, FALSE, "Internal server error during video processing")

\* a catch block that records the failure and sends nothing
CatchSilently(s) ==
  [Update(s, Failed("Internal server error", "server_error")) EXCEPT
     !.pc = "done"]

\* the catch block of /process-video
Catch(s) ==
  Respond(Update(s, Failed("Internal server error", "server_error")),
          500, FALSE, "Internal server error during video processing")

Min(a, b) == IF a < b THEN a ELSE b

\* [...transitions].sort((a, b) => a.time - b.time): a stable sort; the
\* result lists the item numbers (positions in the array submitted)
RECURSIVE InsertByTime(_, _, _)
InsertByTime(seq, x, t) ==
  IF seq = << >> THEN << x >>
  ELSE IF t[Head(seq)] <= t[x]
       THEN << Head(seq) >> \o InsertByTime(Tail(seq), x, t)
       ELSE << x >> \o seq

RECURSIVE SortPrefix(_, _)
SortPrefix(t, n) ==
  IF n = 0 THEN << >> ELSE InsertByTime(SortPrefix(t, n - 1), n, t)

\* the items in the order submitted
NoSort(t) == [k \in 1..Len(t) |-> k]

SortByTime(t) == SortPrefix(t, Len(t))

\* a step cleanup that deletes the file the step has just written
StepCleanupOfOutput(s) ==
  [s EXCEPT !.files = @ \ {s.stageLog[Len(s.stageLog)].output}]

\* if (processedVideoPath !== videoPath && fs.existsSync(...)) unlinkSync
StepCleanup(s) ==
  [s EXCEPT !.files = IF s.processedVideoPath # s.videoPath
                      THEN @ \ {s.processedVideoPath} ELSE @]

\* a cleanup that forgets the last list-stage output
CleanupWithoutLast(s) ==
  LET f1 == s.files \ {s.audioResult.outputPath, AssPath, s.videoPath}
      f2 == IF s.trimResult.outputPath # s.videoPath
            THEN f1 \ {s.trimResult.outputPath} ELSE f1
      f3 == IF s.fillerTrimResult.success
               /\ s.fillerTrimResult.outputPath # s.trimResult.outputPath
            THEN f2 \ {s.fillerTrimResult.outputPath} ELSE f2
      f4 == IF s.zoomResult.success THEN f3 \ {s.zoomResult.outputPath} ELSE f3
  IN [s EXCEPT !.files = f4]

\* the cleanup of a successful run
Cleanup(s) ==
  LET f1 == IF s.audioResult.outputPath # NoPath
            THEN s.files \ {s.audioResult.outputPath} ELSE s.files
      f2 == f1 \ {AssPath}
      f3 == f2 \ {s.videoPath}
      f4 == IF s.trimResult.outputPath # NoPath
               /\ s.trimResult.outputPath # s.videoPath
            THEN f3 \ {s.trimResult.outputPath} ELSE f3
      f5 == IF s.fillerTrimResult.success
               /\ s.fillerTrimResult.outputPath # NoPath
               /\ s.fillerTrimResult.outputPath # s.trimResult.outputPath
            THEN f4 \ {s.fillerTrimResult.outputPath} ELSE f4
      f6 == IF s.zoomResult.success /\ s.zoomResult.outputPath # NoPath
               /\ s.zoomResult.outputPath # s.fillerTrimResult.outputPath
            THEN f5 \ {s.zoomResult.outputPath} ELSE f5
      f7 == IF s.processedVideoPath # OutputVideoPath
               /\ s.processedVideoPath # s.videoPath
            THEN f6 \ {s.processedVideoPath} ELSE f6
  IN [s EXCEPT !.files = f7]

\* caption generation (synchronous) and the call of the burn-in
SubtitlesBlock(s, assOk) ==
  LET s1 == Invoke(Update(s, Progress(75, "Generating subtitles")),
                   "generateASS", 0, NoPath)
  IN IF ~assOk THEN Catch(Threw(s1))
     ELSE LET s2 == [Returned(s1, AssPath) EXCEPT !.files = @ \cup {AssPath}]
              s3 == Update(s2, Progress(85, "Burning subtitles into video"))
          IN Invoke(s3, "burnSubtitles", 0, s3.processedVideoPath)

\* step 3.6: the audio overlays, first call
AudiosBlock(s, assOk) ==
  IF s.audios > 0
  THEN LET s1 == Update(s, Progress(68, "Overlaying background audio"))
       IN Invoke([s1 EXCEPT !.i = 0], "addBackgroundAudio", 1,
                 s1.processedVideoPath)
  ELSE SubtitlesBlock(s, assOk)

\* step 3.5: the transitions, first call
TransitionsBlock(s, assOk) ==
  IF Len(s.transitions) > 0
  THEN LET s1 == Update(s, Progress(62, "Applying transitions"))
           s2 == [s1 EXCEPT !.sorted = SortByTime(s.transitions), !.i = 0]
       IN Invoke(s2, "addTransition", s2.sorted[1], s2.processedVideoPath)
  ELSE AudiosBlock(s, assOk)

\* a loop that skips the item that threw and goes on with the next one
TransitionThrewContinue(s, assOk) ==
  LET s1 == [s EXCEPT !.i = s.i + 1]
  IN IF s1.i < Len(s.sorted)
     THEN Invoke(s1, "addTransition", s.sorted[s1.i + 1], s.processedVideoPath)
     ELSE AudiosBlock(s1, assOk)

\* the catch around the transitions loop: the loop is left
TransitionThrew(s, assOk) == AudiosBlock(s, assOk)

\* a loop that skips the overlay that threw and goes on with the next one
OverlayThrewContinue(s, assOk) ==
  LET s1 == [s EXCEPT !.i = s.i + 1]
  IN IF s1.i < s.audios
     THEN Invoke(s1, "addBackgroundAudio", s1.i + 1, s.processedVideoPath)
     ELSE SubtitlesBlock(s1, assOk)

\* the catch around the overlays loop: the loop is left
\* a catch that goes back to the transitions
OverlayThrewRestart(s, assOk) == TransitionsBlock(s, assOk)

OverlayThrew(s, assOk) == SubtitlesBlock(s, assOk)

\* a handler that takes the stage's outputPath whatever the stage reports
UseFillerResultAlways(s, res) ==
  [s EXCEPT !.fillerTrimResult = res, !.processedVideoPath = res.outputPath]

\* if (fillerTrimResult.success && fillerTrimResult.outputPath) ... else warn
UseFillerResult(s, res) ==
  [s EXCEPT !.fillerTrimResult = res,
            !.processedVideoPath = IF res.success /\ res.outputPath # NoPath
                                   THEN res.outputPath ELSE @]

TransitionLists ==
  UNION {[1..n -> Times] : n \in 0..MaxTrans}

\* ---------------------------------------------------------------- actions
\* POST /process-video up to the call of silenceTrim
ReceiveProcessVideo(rid, hasFile, trans, aud) ==
  /\ pc = "idle"
  /\ LET s0 == [St EXCEPT !.route = "process-video", !.requestId = rid,
                          !.transitions = trans, !.audios = aud,
                          !.files = IF hasFile THEN @ \cup {Upload} ELSE @]
         s1 == Update(s0, Progress(5, "Upload received"))
     IN IF ~hasFile
        THEN Become(Respond(Update(s1, Failed("No file uploaded", "No file")),
                            400, FALSE, "No file uploaded or invalid file type."))
        ELSE LET s2 == Update([s1 EXCEPT !.videoPath = Upload],
                              Progress(10, "Trimming silence"))
             IN Become(Invoke(s2, "silenceTrim", 0, s2.videoPath))
  /\ UNCHANGED pureVars

\* silenceTrim returned; up to the call of fillerWordTrim
SilenceTrimDone(outcome) ==
  /\ pc = "silenceTrim"
  /\ IF outcome = "fail"
     THEN Become(Respond(Update(Threw(St),
                                Failed("Silence trimming failed", "trim error")),
                         500, FALSE, "Silence trimming failed"))
     ELSE LET out == IF outcome = "trimmed" THEN TrimmedPath ELSE videoPath
              s1 == [Returned(St, out) EXCEPT
                       !.files = @ \cup {out},
                       !.trimResult = [success |-> TRUE, outputPath |-> out],
                       !.processedVideoPath = out]
              s2 == Update(s1, Progress(12, "Detecting and removing filler words"))
          IN Become(Invoke(s2, "fillerWordTrim", 0, s2.processedVideoPath))
  /\ UNCHANGED pureVars

\* fillerWordTrim returned; up to the call of audioExtract
FillerTrimDone(outcome) ==
  /\ pc = "fillerWordTrim"
  /\ LET out == IF outcome = "trimmed" THEN FillerTrimmedPath
                ELSE IF outcome = "unchanged" THEN processedVideoPath
                ELSE NoPath
         res == [success |-> outcome # "fail", outputPath |-> out]
         s0 == IF res.success
               THEN [Returned(St, out) EXCEPT !.files = @ \cup {out}]
               ELSE Threw(St)
         s1 == UseFillerResult(s0, res)
         s2 == Update(s1, Progress(18, "Extracting audio"))
     IN Become(Invoke(s2, "audioExtract", 0, s2.processedVideoPath))
  /\ UNCHANGED pureVars

\* audioExtract returned; up to the call of transcribeAudio
AudioExtractDone(ok) ==
  /\ pc = "audioExtract"
  /\ IF ~ok
     THEN Become(Respond(Update(Threw(St),
                                Failed("Audio extraction failed", "audio error")),
                         500, FALSE, "Audio extraction failed"))
     ELSE LET s1 == [Returned(St, ExtractedAudioPath) EXCEPT
                       !.files = @ \cup {ExtractedAudioPath},
                       !.audioResult = [success |-> TRUE,
                                        outputPath |-> ExtractedAudioPath]]
              s2 == Update(s1, Progress(45, "Transcribing audio"))
          IN Become(Invoke(s2, "transcribeAudio", 0, ExtractedAudioPath))
  /\ UNCHANGED pureVars

\* transcribeAudio returned or threw; up to the call of applyZoomEffect
TranscribeContinue(outcome) ==
  /\ pc = "transcribeAudio"
  /\ IF outcome = "throw" THEN Become(Catch(Threw(St)))
     ELSE IF outcome = "empty"
     THEN Become(Respond(Update(Threw(St),
                                Failed("Transcription failed",
                                       "Transcription failed or empty")),
                         500, FALSE,
                         "Transcription failed or returned no segments"))
     ELSE LET s1 == [Returned(St, NoPath) EXCEPT !.transcriptionSegments = 1]
              s2 == Update(s1, Progress(60, "Applying zoom effect"))
          IN Become(Invoke(s2, "applyZoomEffect", 0, s2.processedVideoPath))

TranscribeDone(outcome) == TranscribeContinue(outcome) /\ UNCHANGED pureVars

\* applyZoomEffect returned or threw; up to the next await
ZoomDone(ok, assOk) ==
  /\ pc = "applyZoomEffect"
  /\ route = "process-video"
  /\ LET s1 == IF ok
               THEN [Returned(St, ZoomedPath) EXCEPT
                       !.files = @ \cup {ZoomedPath},
                       !.zoomResult = [success |-> TRUE, outputPath |-> ZoomedPath],
                       !.processedVideoPath = ZoomedPath]
               ELSE Threw(St)
     IN Become(TransitionsBlock(s1, assOk))
  /\ UNCHANGED pureVars

\* addTransition returned or threw, in /process-video
TransitionDone(ok, assOk) ==
  /\ pc = "addTransition"
  /\ route = "process-video"
  /\ IF ~ok THEN Become(TransitionThrew(Threw(St), assOk))
     ELSE LET n == Len(sorted)
              stepOut == TransitionStepOut(i + 1)
              s1 == [Returned(St, stepOut) EXCEPT !.files = @ \cup {stepOut}]
              s2 == [StepCleanup(s1) EXCEPT !.processedVideoPath = stepOut]
              s3 == Update(s2, Progress(62 + Min(10, ((i + 1) * 10) \div n),
                                        "Applied transition"))
              s4 == [s3 EXCEPT !.i = i + 1]
          IN IF s4.i < n
             THEN Become(Invoke(s4, "addTransition", sorted[s4.i + 1], stepOut))
             ELSE Become(AudiosBlock(s4, assOk))
  /\ UNCHANGED pureVars

\* addBackgroundAudio returned or threw, in /process-video
OverlayDone(ok, assOk) ==
  /\ pc = "addBackgroundAudio"
  /\ IF ~ok THEN Become(OverlayThrew(Threw(St), assOk))
     ELSE LET stepOut == AudioStepOut(i + 1)
              s1 == [Returned(St, stepOut) EXCEPT !.files = @ \cup {stepOut}]
              s2 == [StepCleanup(s1) EXCEPT !.processedVideoPath = stepOut]
              s3 == Update(s2, Progress(68 + Min(8, ((i + 1) * 8) \div audios),
                                        "Added audio"))
              s4 == [s3 EXCEPT !.i = i + 1]
          IN IF s4.i < audios
             THEN Become(Invoke(s4, "addBackgroundAudio", s4.i + 1, stepOut))
             ELSE Become(SubtitlesBlock(s4, assOk))
  /\ UNCHANGED pureVars

\* burnSubtitles resolved or rejected; cleanup and the success response
BurnDone(ok) ==
  /\ pc = "burnSubtitles"
  /\ IF ~ok THEN Become(Catch(Threw(St)))
     ELSE LET s1 == [Returned(St, OutputVideoPath) EXCEPT
                       !.files = @ \cup {OutputVideoPath}]
              s2 == Update(Cleanup(s1), Completed)
          IN Become(Respond(s2, 200, TRUE, "none"))
  /\ UNCHANGED pureVars

\* ------------------------------------------- finalize with failing deletes
\* the path the k-th unlinkSync of the cleanup names, NoPath when the
\* conditions in front of it are false
CleanupTarget(s, k) ==
  IF k = 1 THEN s.audioResult.outputPath
  ELSE IF k = 2 THEN AssPath
  ELSE IF k = 3 THEN s.videoPath
  ELSE IF k = 4
  THEN IF s.trimResult.outputPath # s.videoPath
       THEN s.trimResult.outputPath ELSE NoPath
  ELSE IF k = 5
  THEN IF s.fillerTrimResult.success
          /\ s.fillerTrimResult.outputPath # s.trimResult.outputPath
       THEN s.fillerTrimResult.outputPath ELSE NoPath
  ELSE IF k = 6
  THEN IF s.zoomResult.success
          /\ s.zoomResult.outputPath # s.fillerTrimResult.outputPath
       THEN s.zoomResult.outputPath ELSE NoPath
  ELSE IF s.processedVideoPath # OutputVideoPath
          /\ s.processedVideoPath # s.videoPath
       THEN s.processedVideoPath ELSE NoPath

\* the cleanup from its k-th unlinkSync on, when the failAt-th one throws:
\* the files left, and whether the try block was left by the throw (the
\* seventh has a try of its own)
RECURSIVE CleanupFrom(_, _, _, _)
CleanupFrom(s, k, failAt, left) ==
  IF k > 7 THEN [files |-> left, threw |-> FALSE]
  ELSE LET target == CleanupTarget(s, k)
           attempted == target # NoPath /\ target \in left
       IN IF attempted /\ k = failAt
          THEN IF k = 7 THEN [files |-> left, threw |-> FALSE]
               ELSE [files |-> left, threw |-> TRUE]
          ELSE CleanupFrom(s, k + 1, failAt,
                           IF attempted THEN left \ {target} ELSE left)

\* a cleanup whose error reaches the catch block of the handler
CleanupEscalated(s) == Catch(s)

\* catch (cleanupError) { console.warn(...) }
CleanupCaught(s) == s

\* burnSubtitles resolved; the cleanup, in which the failAt-th unlinkSync
\* throws (none for 0), and the success response
BurnDoneDeleting(failAt) ==
  /\ pc = "burnSubtitles"
  /\ LET s1 == [Returned(St, OutputVideoPath) EXCEPT
                  !.files = @ \cup {OutputVideoPath}]
         c == CleanupFrom(s1, 1, failAt, s1.files)
         s2 == [s1 EXCEPT !.files = c.files]
         s3 == IF c.threw THEN CleanupCaught(s2) ELSE s2
     IN Become(Respond(Update(s3, Completed), 200, TRUE, "none"))
  /\ UNCHANGED pureVars

\* the error middleware of the router, for an upload multer rejected
UploadRejected(id, kind) ==
  /\ progressMap' =
       IF kind = "LIMIT_FILE_SIZE"
       THEN updateProgress(progressMap, id, Failed("File too large", "LIMIT_FILE_SIZE"))
       ELSE IF kind = "Only video files" THEN progressMap
       ELSE updateProgress(progressMap, id, Failed("File upload failed", "multer_error"))
  /\ UNCHANGED << pc, route, requestId, percentLog, files, videoPath,
                  processedVideoPath, trimResult, fillerTrimResult, audioResult,
                  zoomResult, transcriptionSegments, transitions, sorted,
                  audios, i, stageLog, responses >>
  /\ UNCHANGED pureVars

InitHandler ==
  /\ pc = "idle" /\ route = "none" /\ requestId = NoId
  /\ progressMap = EmptyMap /\ percentLog = << >> /\ files = {}
  /\ videoPath = NoPath /\ processedVideoPath = NoPath
  /\ trimResult = NoResult /\ fillerTrimResult = NoResult
  /\ audioResult = NoResult /\ zoomResult = NoResult
  /\ transcriptionSegments = 0
  /\ transitions = << >> /\ sorted = << >> /\ audios = 0
  /\ i = 0 /\ stageLog = << >> /\ responses = << >>

\* POST /apply-transitions up to the first call of addTransition
ReceiveApplyTransitions(hasFile, trans) ==
  /\ pc = "idle"
  /\ LET s0 == [St EXCEPT !.route = "apply-transitions", !.transitions = trans]
     IN IF ~hasFile
        THEN Become(Respond(s0, 400, FALSE,
                            "No file uploaded or invalid file type."))
        ELSE LET s1 == [s0 EXCEPT !.files = @ \cup {Upload},
                                  !.videoPath = Upload]
             IN IF Len(trans) = 0
                THEN Become(Respond(s1, 400, FALSE, "No transitions provided"))
                ELSE LET s2 == [s1 EXCEPT !.processedVideoPath = Upload,
                                          !.sorted = SortByTime(trans),
                                          !.i = 0]
                     IN Become(Invoke(s2, "addTransition", s2.sorted[1], Upload))
  /\ UNCHANGED pureVars

\* addTransition returned or threw, in /apply-transitions
ApplyTransitionDone(ok) ==
  /\ pc = "addTransition"
  /\ route = "apply-transitions"
  /\ IF ~ok
     THEN Become(Respond(Threw(St), 500, FALSE,
                         "Failed to apply transitions"))
     ELSE LET stepOut == TransitionStepOut(i + 1)
              s1 == [Returned(St, stepOut) EXCEPT !.files = @ \cup {stepOut}]
              s2 == [StepCleanup(s1) EXCEPT !.processedVideoPath = stepOut,
                                            !.i = i + 1]
          IN IF s2.i < Len(sorted)
             THEN Become(Invoke(s2, "addTransition", sorted[s2.i + 1], stepOut))
             ELSE Become(Respond([s2 EXCEPT !.files = @ \ {s2.videoPath}],
                                 200, TRUE, "none"))
  /\ UNCHANGED pureVars

\* ------------------------------------------------------ buildKeepSegments
\* the for loop of buildKeepSegments over fillerSegments[k..]
RECURSIVE KeepLoop(_, _, _, _)
KeepLoop(segs, k, currentStart, keep) ==
  IF k > Len(segs) THEN [keep |-> keep, currentStart |-> currentStart]
  ELSE KeepLoop(segs, k + 1, segs[k].end,
                IF segs[k].start > currentStart
                THEN Append(keep, [start |-> currentStart, end |-> segs[k].start])
                ELSE keep)

\* a builder that forgets the segment after the last removal
buildKeepSegmentsNoTail(segs, total) == KeepLoop(segs, 1, 0, << >>).keep

buildKeepSegments(segs, total) ==
  LET r == KeepLoop(segs, 1, 0, << >>)
  IN IF r.currentStart < total
     THEN Append(r.keep, [start |-> r.currentStart, end |-> total])
     ELSE r.keep

Intervals ==
  {iv \in [start : 0..MaxDur, end : 0..MaxDur] : iv.start < iv.end}

\* removal lists as detectFillerWords returns them: each interval has
\* start < end, and each starts no earlier than the one before it ends
RemovalLists ==
  {l \in UNION {[1..n -> Intervals] : n \in 0..MaxSegs} :
     \A k \in 1..(Len(l) - 1) : l[k].end <= l[k + 1].start}

CallBuildKeepSegments ==
  /\ ~ksDone
  /\ keepSegments' = buildKeepSegments(fillerSegments, totalDuration)
  /\ ksDone' = TRUE
  /\ UNCHANGED << fillerSegments, totalDuration >>
  /\ UNCHANGED << pc, route, requestId, progressMap, percentLog, files,
                  videoPath, processedVideoPath, trimResult, fillerTrimResult,
                  audioResult, zoomResult, transcriptionSegments, transitions,
                  sorted, audios, i, stageLog, responses >>
  /\ UNCHANGED << trimVars, zoomVars, lastCall, now, conc, disk,
                 callVars >>

\* ------------------------------------------ silenceTrim and fillerWordTrim
\* Times are in hundredths of a second.
UntilEnd == -1      \* end of a keep segment that runs to the end of the video

Max(a, b) == IF a > b THEN a ELSE b

\* the for loop of the silence buildKeepSegments over silenceSegments[k..]
RECURSIVE SilenceKeepLoop(_, _, _, _, _)
SilenceKeepLoop(segs, pad, k, currentStart, keep) ==
  IF k > Len(segs) THEN [keep |-> keep, currentStart |-> currentStart]
  ELSE SilenceKeepLoop(segs, pad, k + 1, segs[k].end,
                       IF segs[k].start > currentStart + pad
                       THEN Append(keep, [start |-> Max(0, currentStart),
                                          end |-> segs[k].start - pad])
                       ELSE keep)

\* a builder without the fallback segment for an empty result
silenceBuildKeepSegmentsNoDefault(segs, pad) ==
  LET r == SilenceKeepLoop(segs, pad, 1, 0, << >>)
  IN IF r.currentStart > 0
     THEN Append(r.keep, [start |-> r.currentStart + pad, end |-> UntilEnd])
     ELSE r.keep

\* buildKeepSegments(silenceSegments, padding) of the silence trim
silenceBuildKeepSegments(segs, pad) ==
  LET r == SilenceKeepLoop(segs, pad, 1, 0, << >>)
      k1 == IF r.currentStart > 0
            THEN Append(r.keep, [start |-> r.currentStart + pad, end |-> UntilEnd])
            ELSE r.keep
  IN IF Len(k1) = 0 THEN << [start |-> 0, end |-> UntilEnd] >> ELSE k1

\* What a trim function returns: success, which path outputPath names
\* ("videoPath" the input, "outputPath" the new file, "undefined" none), and
\* whether it has invoked its trim/concat encode.
NoReturn == [success |-> FALSE, outputPath |-> "not called", encoded |-> FALSE]
TrimReturn(success, outputPath, encoded) ==
  [success |-> success, outputPath |-> outputPath, encoded |-> encoded]

\* silenceTrim after detectSilence has returned segs; encodeOk is the
\* outcome of the engine when trimAndConcat runs it
silenceTrim(segs, pad, encodeOk) ==
  IF Len(segs) = 0 THEN TrimReturn(TRUE, "videoPath", FALSE)
  ELSE IF Len(silenceBuildKeepSegments(segs, pad)) = 0
       THEN TrimReturn(FALSE, "undefined", FALSE)
       ELSE IF encodeOk THEN TrimReturn(TRUE, "outputPath", TRUE)
            ELSE TrimReturn(FALSE, "undefined", TRUE)

\* fillerWordTrim after detectFillerWords has returned segs and
\* getVideoDuration has returned total
fillerWordTrim(segs, total, encodeOk) ==
  IF Len(segs) = 0 THEN TrimReturn(TRUE, "videoPath", FALSE)
  ELSE IF Len(buildKeepSegments(segs, total)) = 0
       THEN TrimReturn(FALSE, "undefined", FALSE)
       ELSE IF encodeOk THEN TrimReturn(TRUE, "outputPath", TRUE)
            ELSE TrimReturn(FALSE, "undefined", TRUE)

SilenceIntervals ==
  {iv \in [start : 0..MaxTime, end : 0..MaxTime] : iv.start < iv.end}

\* silence lists as detectSilence returns them: in the order of the
\* stream, each interval with start < end and none overlapping the next
SilenceLists ==
  {l \in UNION {[1..n -> SilenceIntervals] : n \in 0..MaxSegs} :
     \A k \in 1..(Len(l) - 1) : l[k].end <= l[k + 1].start}

\* one silence from 4 s to 6 s in a clip of 10 s, with the default padding
DefaultPaddingCase ==
  [segs |-> << [start |-> 400, end |-> 600] >>, pad |-> 12, dur |-> 1000]

TrimInputs ==
  [segs : SilenceLists, pad : 0..MaxPad, dur : 0..MaxTime]
    \cup {DefaultPaddingCase}

CallSilenceBuildKeepSegments ==
  /\ ~silenceDone
  /\ silenceKeepSegments' = silenceBuildKeepSegments(silenceSegments, padding)
  /\ silenceDone' = TRUE
  /\ UNCHANGED << silenceSegments, padding, silenceTrimReturn, fillerTrimReturn >>
  /\ UNCHANGED << handlerVars, ksVars, zoomVars, lastCall, now, conc, disk,
                 callVars >>

CallSilenceTrim(encodeOk) ==
  /\ silenceDone /\ silenceTrimReturn = NoReturn
  /\ silenceTrimReturn' = silenceTrim(silenceSegments, padding, encodeOk)
  /\ UNCHANGED << silenceSegments, padding, silenceKeepSegments, silenceDone,
                  fillerTrimReturn >>
  /\ UNCHANGED << handlerVars, ksVars, zoomVars, lastCall, now, conc, disk,
                 callVars >>

CallFillerWordTrim(encodeOk) ==
  /\ ksDone /\ fillerTrimReturn = NoReturn
  /\ fillerTrimReturn' = fillerWordTrim(fillerSegments, totalDuration, encodeOk)
  /\ UNCHANGED << silenceSegments, padding, silenceKeepSegments, silenceDone,
                  silenceTrimReturn >>
  /\ UNCHANGED << handlerVars, ksVars, zoomVars, lastCall, now, conc, disk,
                 callVars >>

\* -------------------------------------------------------- applyZoomEffect
\* applyZoomEffect builds the zoom factor as the text of an expression that
\* the media engine evaluates at each time t.  A text is modelled by the way
\* the engine reads it: a sequence of terms that are added up, each a sign
\* and a product of factors; a factor is a number n/d, the call
\* min(max(t/d,0),1), a parenthesised text or pow(text,2).  Writing two
\* texts next to each other around an operator joins them as the engine's
\* precedence does:  a*b  multiplies the last term of a with the first of b.
Easings == {"linear", "ease-in", "ease-out", "ease-in-out"}
ZoomLevels == {100, 115, 120}    \* zoom factors, in hundredths

Factor(kind, n, d, arg) == [kind |-> kind, n |-> n, d |-> d, arg |-> arg]
Single(f) == << [sign |-> 1, factors |-> << f >>] >>
Num(n, d) == Single(Factor("num", n, d, << >>))
Clamp(d) == Single(Factor("clamp", 0, d, << >>))
Paren(a) == Single(Factor("paren", 0, 1, a))
Pow2(a) == Single(Factor("pow2", 0, 1, a))

\* the text  a+b
AddText(a, b) == a \o b
\* the text  a-b
SubText(a, b) == a \o << [b[1] EXCEPT !.sign = -@] >> \o Tail(b)
\* the text  a*b
MulText(a, b) ==
  SubSeq(a, 1, Len(a) - 1)
    \o << [sign |-> a[Len(a)].sign * b[1].sign,
           factors |-> a[Len(a)].factors \o b[1].factors] >>
    \o Tail(b)

\* an easingOn whose ease-in-out is  p*p*(3-4*p)
easingOnSteep(p, e) ==
  CASE e = "linear" -> p
    [] e = "ease-in" -> Pow2(p)
    [] e = "ease-out" -> SubText(Num(1, 1), Pow2(SubText(Num(1, 1), p)))
    [] OTHER -> MulText(MulText(p, p),
                        Paren(SubText(Num(3, 1), MulText(Num(4, 1), p))))

\* an easingOn whose ease-out is  1-pow(p,2)
easingOnFlipped(p, e) ==
  CASE e = "linear" -> p
    [] e = "ease-in" -> Pow2(p)
    [] e = "ease-out" -> SubText(Num(1, 1), Pow2(p))
    [] OTHER -> MulText(MulText(p, p),
                        Paren(SubText(Num(3, 1), MulText(Num(2, 1), p))))

\* easingOn(p, easing): the text of the easing curve over the text p
easingOn(p, e) ==
  CASE e = "linear" -> p
    [] e = "ease-in" -> Pow2(p)
    [] e = "ease-out" -> SubText(Num(1, 1), Pow2(SubText(Num(1, 1), p)))
    [] OTHER -> MulText(MulText(p, p),
                        Paren(SubText(Num(3, 1), MulText(Num(2, 1), p))))

\* `${startZoom}+(${endZoom}-${startZoom})*${easingExpr}`
ZoomText(s, e, ease) ==
  AddText(Num(s, 100), MulText(Paren(SubText(Num(e, 100), Num(s, 100))), ease))

\* The engine's arithmetic, exact: a value is a fraction <<n, d>> with d > 0.
RECURSIVE GCD(_, _)
GCD(a, b) == IF b = 0 THEN a ELSE GCD(b, a % b)
Abs(n) == IF n < 0 THEN -n ELSE n
Lowest(a) == LET g == GCD(Abs(a[1]), a[2]) IN << a[1] \div g, a[2] \div g >>
RAdd(a, b) == Lowest(<< a[1] * b[2] + b[1] * a[2], a[2] * b[2] >>)
RMul(a, b) == Lowest(<< a[1] * b[1], a[2] * b[2] >>)
RSub(a, b) == RAdd(a, << -b[1], b[2] >>)
REq(a, b) == a[1] * b[2] = b[1] * a[2]
RLe(a, b) == a[1] * b[2] <= b[1] * a[2]

\* min(max(t/d,0),1)
ClampValue(t, d) == IF t <= 0 THEN << 0, 1 >>
                    ELSE IF t >= d THEN << 1, 1 >> ELSE << t, d >>

\* the value of a text at time t
RECURSIVE EvalFrom(_, _, _), EvalTerm(_, _, _), EvalFactor(_, _)
EvalFactor(f, t) ==
  CASE f.kind = "num" -> << f.n, f.d >>
    [] f.kind = "clamp" -> ClampValue(t, f.d)
    [] f.kind = "paren" -> EvalFrom(f.arg, 1, t)
    [] OTHER -> RMul(EvalFrom(f.arg, 1, t), EvalFrom(f.arg, 1, t))
EvalTerm(term, j, t) ==
  IF j > Len(term.factors) THEN << term.sign, 1 >>
  ELSE RMul(EvalFactor(term.factors[j], t), EvalTerm(term, j + 1, t))
EvalFrom(text, k, t) ==
  IF k > Len(text) THEN << 0, 1 >>
  ELSE RAdd(EvalTerm(text[k], 1, t), EvalFrom(text, k + 1, t))
Eval(text, t) == EvalFrom(text, 1, t)

NoText == << >>

\* applyZoomEffect on a clip with a video stream, up to the engine's run
BuildZoomExpressions ==
  /\ zExpr = NoText
  /\ timeProgress' = Clamp(durationSec)
  /\ easingExpr' = easingOn(timeProgress', easing)
  /\ zExpr' = ZoomText(startZoom, endZoom, easingExpr')
  /\ UNCHANGED << easing, startZoom, endZoom, durationSec >>
  /\ UNCHANGED << handlerVars, ksVars, trimVars, lastCall, now, conc, disk,
                 callVars >>

\* ------------------------------------------------ the tracker on its own
\* the state GET /progress/:id answers with for an id it does not know
PendingState == [percent |-> 0, message |-> "Pending", done |-> FALSE]

NoFields == [k \in {} |-> 0]

\* the updates a caller may pass: any subset of the fields of ProgressState
Partials ==
  {Merge(Merge(Merge(a, b), c), d) :
     a \in {NoFields} \cup [percent : {100}],
     b \in {NoFields} \cup [message : {"m"}],
     c \in {NoFields} \cup [done : BOOLEAN],
     d \in {NoFields} \cup [error : {"e"}]}

NoCall == [op |-> "none", id |-> NoId, update |-> NoFields, response |-> NoFields]

handlerVarsButMap ==
  << pc, route, requestId, percentLog, files, videoPath, processedVideoPath,
     trimResult, fillerTrimResult, audioResult, zoomResult,
     transcriptionSegments, transitions, sorted, audios, i, stageLog,
     responses >>

\* a call updateProgress(id, update)
CallUpdateProgress(id, update) ==
  /\ progressMap' = updateProgress(progressMap, id, update)
  /\ lastCall' = [op |-> "update", id |-> id, update |-> update,
                  response |-> NoFields]
  /\ UNCHANGED << handlerVarsButMap, ksVars, trimVars, zoomVars, now, conc, disk,
                 callVars >>

\* GET /progress/:id
GetProgress(id) ==
  /\ lastCall' = [op |-> "get", id |-> id, update |-> NoFields,
                  response |-> IF id \in DOMAIN progressMap
                               THEN progressMap[id] ELSE PendingState]
  /\ UNCHANGED << handlerVars, ksVars, trimVars, zoomVars, now, conc, disk,
                 callVars >>

\* ------------------------------------------------ two requests in flight
\* Two /process-video requests served by the one process, each followed
\* from the storing of its upload to the return of its fillerWordTrim.  The
\* pieces of code between awaits interleave; the clock may or may not have
\* moved on between two of them.
Reqs == {1, 2}
Rnd == {0, 1}       \* Math.round(Math.random() * 1E9)

\* `${Date.now()}-${random}-${originalname}` in uploads
UploadName(ts, rnd) == << "upload", ts, rnd >>
\* `${videoName}-trimmed-${timestamp}.mp4` in outputs
TrimmedName(up, ts) == << "trimmed", up[2], up[3], ts >>
\* `${videoName}-filler-trimmed-${timestamp}.mp4` in outputs
FillerTrimmedName(in, ts) == << "filler-" >> \o in \o << ts >>
\* `temp-audio-${Date.now()}.wav` in temp
TempAudioName(ts) == << "temp-audio", ts >>

NoRequest ==
  [pc |-> "new", videoPath |-> NoPath, outputPath |-> NoPath,
   processedVideoPath |-> NoPath, audioPath |-> NoPath, used |-> {}]

ConcIdle == now = 0 /\ conc = [r \in Reqs |-> NoRequest] /\ disk = {}

concOthers == << handlerVars, ksVars, trimVars, zoomVars, lastCall, callVars >>

\* a millisecond passes
Tick ==
  /\ now < MaxClock
  /\ now' = now + 1
  /\ UNCHANGED << conc, disk, concOthers >>

\* multer stores the upload of request r
StoreUpload(r, rnd) ==
  /\ conc[r].pc = "new"
  /\ LET up == UploadName(now, rnd)
     IN /\ conc' = [conc EXCEPT ![r].pc = "uploaded", ![r].videoPath = up,
                                ![r].processedVideoPath = up,
                                ![r].used = @ \cup {up}]
        /\ disk' = disk \cup {up}
  /\ UNCHANGED << now, concOthers >>

\* the handler of r calls silenceTrim, which names its output and waits
\* for detectSilence and trimAndConcat
StartSilenceTrim(r) ==
  /\ conc[r].pc = "uploaded"
  /\ conc' = [conc EXCEPT ![r].pc = "silenceTrim",
                          ![r].outputPath = TrimmedName(conc[r].videoPath, now)]
  /\ UNCHANGED << now, disk, concOthers >>

\* silenceTrim of r has returned (with a trimmed file or the input); the
\* handler calls fillerWordTrim, which names its output and its temporary
\* audio and starts the extraction
StartFillerTrim(r, trimmed) ==
  /\ conc[r].pc = "silenceTrim"
  /\ LET in == IF trimmed THEN conc[r].outputPath ELSE conc[r].videoPath
         audio == TempAudioName(now)
     IN /\ conc' = [conc EXCEPT ![r].pc = "extractAudioForAnalysis",
                                ![r].processedVideoPath = in,
                                ![r].outputPath = FillerTrimmedName(in, now),
                                ![r].audioPath = audio,
                                ![r].used = @ \cup {in, audio}]
        /\ disk' = disk \cup {in}
  /\ UNCHANGED << now, concOthers >>

\* the extraction of r has ended: with the temporary audio written and
\* detectFillerWords started on it, or with a failure, which ends
\* fillerWordTrim
ExtractEnded(r, ok) ==
  /\ conc[r].pc = "extractAudioForAnalysis"
  /\ IF ok
     THEN /\ conc' = [conc EXCEPT ![r].pc = "detectFillerWords"]
          /\ disk' = disk \cup {conc[r].audioPath}
     ELSE /\ conc' = [conc EXCEPT ![r].pc = "returned"]
          /\ disk' = disk
  /\ UNCHANGED << now, concOthers >>

\* detectFillerWords of r has ended; fillerWordTrim deletes the temporary
\* audio if it exists, and where fillers were found waits for the trim
DetectEnded(r, found) ==
  /\ conc[r].pc = "detectFillerWords"
  /\ conc' = [conc EXCEPT ![r].pc = IF found THEN "trimAndConcatVideo"
                                    ELSE "returned"]
  /\ disk' = disk \ {conc[r].audioPath}
  /\ UNCHANGED << now, concOthers >>

\* the trim of r has ended, with its output written or with a failure
FillerTrimEnded(r, ok) ==
  /\ conc[r].pc = "trimAndConcatVideo"
  /\ conc' = [conc EXCEPT ![r].pc = "returned",
                          ![r].processedVideoPath =
                             IF ok THEN conc[r].outputPath ELSE @,
                          ![r].used =
                             IF ok THEN @ \cup {conc[r].outputPath} ELSE @]
  /\ disk' = IF ok THEN disk \cup {conc[r].outputPath} ELSE disk
  /\ UNCHANGED << now, concOthers >>

\* ------------------------------------------------------------ generateASS
\* A string is a sequence of tokens: a token is one character, or a run of
\* characters that the function never looks into.
Digit(d) == << "0", "1", "2", "3", "4", "5", "6", "7", "8", "9" >>[d + 1]

\* Number.prototype.toString of a non-negative integer
RECURSIVE IntToString(_)
IntToString(n) ==
  IF n < 10 THEN << Digit(n) >>
  ELSE IntToString(n \div 10) \o << Digit(n % 10) >>

\* String.prototype.padStart(width, '0')
RECURSIVE padStart(_, _)
padStart(s, width) ==
  IF Len(s) >= width THEN s ELSE padStart(<< "0" >> \o s, width)

\* the digits after the point of a number with f thousandths, f in 1..999
RECURSIVE StripZeros(_)
StripZeros(s) ==
  IF s # << >> /\ s[Len(s)] = "0" THEN StripZeros(SubSeq(s, 1, Len(s) - 1))
  ELSE s

\* Number.prototype.toString of a number of seconds given in milliseconds
\* (the fractions in use are sums of halves, quarters and eighths, which a
\*  double holds exactly, so that the decimal digits are the ones printed)
NumberToString(ms) ==
  IF ms % 1000 = 0 THEN IntToString(ms \div 1000)
  ELSE IntToString(ms \div 1000) \o << "." >>
         \o StripZeros(padStart(IntToString(ms % 1000), 3))

\* secondsToAssTime, the seconds given in milliseconds
secondsToAssTime(seconds) ==
  LET hrs == seconds \div 3600000
      mins == (seconds % 3600000) \div 60000
      secs == seconds % 60000
      ms == seconds % 1000
  IN padStart(IntToString(hrs), 2) \o << ":" >>
       \o padStart(IntToString(mins), 2) \o << ":" >>
       \o padStart(NumberToString(secs), 2) \o << "." >>
       \o padStart(IntToString(ms), 3)

\* the template literal assHeader, its lines as tokens
assHeader ==
  << "\n", "  ", "[Script Info]", "\n", "  ", "Title: Auto Subtitles", "\n",
     "  ", "ScriptType: v4.00+", "\n", "  ", "\n", "  ", "[V4+ Styles]", "\n",
     "  ", "Format: Name ...", "\n", "  ", "Style: Default ...", "\n",
     "  ", "\n", "  ", "[Events]", "\n", "  ",
     "Format: Start, End, Style, Text", "\n", "  " >>

WhiteSpace == { " ", "  ", "\n" }

\* .replace(/,/g, '')
RemoveCommas(s) == SelectSeq(s, LAMBDA c : c # ",")

\* .replace(/\n/g, ' ')
NewlinesToSpaces(s) == [k \in 1..Len(s) |-> IF s[k] = "\n" THEN " " ELSE s[k]]

\* .trim()
RECURSIVE trim(_)
trim(s) ==
  IF s = << >> THEN s
  ELSE IF s[1] \in WhiteSpace THEN trim(Tail(s))
  ELSE IF s[Len(s)] \in WhiteSpace THEN trim(SubSeq(s, 1, Len(s) - 1))
  ELSE s

\* a cleaning that leaves the line breaks of the text in place
CleanTextKeepNewlines(text) == trim(RemoveCommas(text))

CleanText(text) == trim(NewlinesToSpaces(RemoveCommas(text)))

\* the arrow function of transcription.map
DialogueLine(item) ==
  << "Dialogue: " >> \o secondsToAssTime(item.start) \o << "," >>
    \o secondsToAssTime(item.end) \o << ",", "Default", "," >>
    \o CleanText(item.text)

\* Array.prototype.join('\n')
RECURSIVE join(_)
join(lines) ==
  IF lines = << >> THEN << >>
  ELSE IF Len(lines) = 1 THEN lines[1]
  ELSE lines[1] \o << "\n" >> \o join(Tail(lines))

\* what generateASS writes to outputPath
generateASS(transcription) ==
  assHeader
    \o join([k \in 1..Len(transcription) |-> DialogueLine(transcription[k])])

\* the times and the texts of the segments: whole and fractional seconds,
\* past the minute and the hour; one word, words around a comma and a line
\* break, and blank text
AssTimes == { 0, 1500, 3661000 }
Texts == { << "a" >>, << "b", ",", "\n", "c" >>, << " ", "\n" >> }
Cues == { c \in [start : AssTimes, end : AssTimes, text : Texts] : c.start <= c.end }

RECURSIVE ListsOf(_, _)
ListsOf(S, n) ==
  IF n = 0 THEN { << >> }
  ELSE LET shorter == ListsOf(S, n - 1)
       IN shorter \cup { Append(l, x) : l \in { m \in shorter : Len(m) = n - 1 },
                                         x \in S }

NoFile == << "no file" >>
NoAssCall == [transcription |-> << >>, file |-> NoFile]

CallGenerateASS(transcription) ==
  /\ assCall = NoAssCall
  /\ assCall' = [transcription |-> transcription,
                 file |-> generateASS(transcription)]
  /\ UNCHANGED << handlerVars, ksVars, trimVars, zoomVars, lastCall, now, conc,
                  disk, overlayCall, transitionCall, detectCall,
                  fillerDetectCall, zoomGraphCall, fillerStageCall, poll >>

\* ------------------------------------------------------ JavaScript values
\* a number, undefined, NaN, or a key that the object does not have
JsNum(n) == [t |-> "number", v |-> n]
undefined == [t |-> "undefined", v |-> 0]
NaN == [t |-> "NaN", v |-> 0]
absent == [t |-> "absent", v |-> 0]

IsNumber(x) == x.t = "number"

\* a.key of an object: undefined when the object has no such key
Get(x) == IF x = absent THEN undefined ELSE x

\* { key: default, ...options }: the key of options wins when it is there,
\* whatever its value
Spread(default, x) == IF x = absent THEN default ELSE x

\* <, >, >= and > 0 convert undefined to NaN, and every comparison with NaN
\* is false
JsLt(x, y) == IsNumber(x) /\ IsNumber(y) /\ x.v < y.v
JsGt(x, y) == IsNumber(x) /\ IsNumber(y) /\ x.v > y.v
JsGe(x, y) == IsNumber(x) /\ IsNumber(y) /\ x.v >= y.v

\* x - y
JsSub(x, y) == IF IsNumber(x) /\ IsNumber(y) THEN JsNum(x.v - y.v) ELSE NaN

\* a boolean or undefined in a condition
Truthy(b) == b = "true"

\* ----------------------------------------------------- addBackgroundAudio
\* the request's item a: times in seconds, the volume in hundredths
ItemTimes == { absent } \cup { JsNum(n) : n \in (0 - 1)..(MaxOverlay + 1) }
ItemLoops == { "absent", "true", "false" }
ItemSounds ==
  { [volume |-> absent, fadeIn |-> absent, fadeOut |-> absent],
    [volume |-> JsNum(50), fadeIn |-> JsNum(1), fadeOut |-> absent],
    [volume |-> JsNum(50), fadeIn |-> JsNum(1), fadeOut |-> JsNum(1)] }
Items ==
  { [startTime |-> s, endTime |-> e, loop |-> l, volume |-> snd.volume,
     fadeIn |-> snd.fadeIn, fadeOut |-> snd.fadeOut] :
      s \in ItemTimes, e \in ItemTimes, l \in ItemLoops, snd \in ItemSounds }

\* the options object that /process-video and /apply-audio build from a
ForwardOptions(a) ==
  [startTime |-> Get(a.startTime), endTime |-> Get(a.endTime),
   volume |-> Get(a.volume), fadeIn |-> Get(a.fadeIn),
   fadeOut |-> Get(a.fadeOut),
   loop |-> IF a.loop = "absent" THEN "undefined" ELSE a.loop]

\* a lookup that lets every id and every file through
ResolveTrackUnchecked(inCatalog, fileExists) == "none"

\* getTrackById and existsSync: the error thrown, if any
ResolveTrack(inCatalog, fileExists) ==
  IF ~inCatalog THEN "track not found"
  ELSE IF ~fileExists THEN "file not found"
  ELSE "none"

Filter(in, name, arg, out) == [in |-> in, name |-> name, arg |-> arg, out |-> out]

\* Math.ceil(x / y) of two positive integers
Ceil(x, y) == (x + y - 1) \div y

\* audioFilters of buildFFmpegArgs
OverlayFilters(options, overlayDuration, bgDuration) ==
  LET first ==
        IF Truthy(options.loop)
        THEN IF JsLt(JsNum(bgDuration), overlayDuration)
             THEN Filter(<< "1:a" >>, "aloop",
                         JsNum(Ceil(overlayDuration.v, bgDuration)), "bg_looped")
             ELSE Filter(<< "1:a" >>, "atrim", overlayDuration, "bg_trimmed")
        ELSE Filter(<< "1:a" >>, "atrim", overlayDuration, "bg_trimmed")
      bgAudioLabel == IF Truthy(options.loop) THEN "bg_looped" ELSE "bg_trimmed"
      fadeIn == JsGt(options.fadeIn, JsNum(0))
      fadeOut == JsGt(options.fadeOut, JsNum(0))
      volumeFilter ==
        IF fadeIn /\ fadeOut THEN "volume,afade in,afade out"
        ELSE IF fadeIn THEN "volume,afade in"
        ELSE IF fadeOut THEN "volume,afade out"
        ELSE "volume"
  IN << first,
        Filter(<< bgAudioLabel >>, volumeFilter, options.volume, "bg_processed"),
        Filter(<< "0:a", "bg_processed" >>, "amix", JsNum(2), "audio_out") >>

\* the engine links a graph only if every label a filter reads is an input
\* stream or was written by a filter
Linked(filters, streams) ==
  \A k \in 1..Len(filters) : \A p \in 1..Len(filters[k].in) :
    \/ filters[k].in[p] \in streams
    \/ \E j \in 1..Len(filters) : filters[j].out = filters[k].in[p]

NoOptions == [startTime |-> undefined, endTime |-> undefined]

OverlayReturn(threw, engine, opts, overlayDuration, filters, output) ==
  [threw |-> threw, engine |-> engine, opts |-> opts,
   overlayDuration |-> overlayDuration, filters |-> filters,
   output |-> output]

\* addBackgroundAudio: what it throws, the engine runs it makes, the options
\* and the filters it builds, and whether outputVideoPath is written.
\* videoDuration and bgDuration are what the probes return, encodeOk is the
\* engine's exit on a graph it can link.
addBackgroundAudio(inCatalog, fileExists, options, videoDuration, bgDuration, encodeOk) ==
  LET notFound == ResolveTrack(inCatalog, fileExists)
      spread == [startTime |-> Spread(JsNum(0), options.startTime),
                 endTime |-> Spread(JsNum(videoDuration), options.endTime),
                 volume |-> Spread(JsNum(30), options.volume),
                 fadeIn |-> Spread(JsNum(0), options.fadeIn),
                 fadeOut |-> Spread(JsNum(0), options.fadeOut),
                 loop |-> IF options.loop = "absent" THEN "true" ELSE options.loop]
      clampedStart == [spread EXCEPT !.startTime =
                         IF JsLt(@, JsNum(0)) THEN JsNum(0) ELSE @]
      opts == [clampedStart EXCEPT !.endTime =
                 IF JsGt(@, JsNum(videoDuration)) THEN JsNum(videoDuration) ELSE @]
      overlayDuration == JsSub(opts.endTime, opts.startTime)
      filters == OverlayFilters(opts, overlayDuration, bgDuration)
      probes == IF Truthy(opts.loop) THEN << "ffprobe", "ffprobe" >>
                ELSE << "ffprobe" >>
      ok == encodeOk /\ Linked(filters, { "0:a", "1:a" })
  IN IF notFound # "none"
     THEN OverlayReturn(notFound, << >>, NoOptions, undefined, << >>, FALSE)
     ELSE IF JsGe(opts.startTime, opts.endTime)
     THEN OverlayReturn("start time must be less than end time", << "ffprobe" >>,
                        opts, undefined, << >>, FALSE)
     ELSE OverlayReturn(IF ok THEN "none" ELSE "ffmpeg failed",
                        probes \o << "ffmpeg" >>, opts, overlayDuration,
                        filters, ok)

NoOverlayCall == [called |-> FALSE]

\* one overlay step of /process-video or /apply-audio
CallAddBackgroundAudio(inCatalog, fileExists, a, videoDuration, bgDuration, encodeOk) ==
  /\ ~overlayCall.called /\ ~transitionCall.called
  /\ overlayCall' =
       [called |-> TRUE, inCatalog |-> inCatalog, fileExists |-> fileExists,
        a |-> a, videoDuration |-> videoDuration, bgDuration |-> bgDuration,
        encodeOk |-> encodeOk,
        return |-> addBackgroundAudio(inCatalog, fileExists, ForwardOptions(a),
                                      videoDuration, bgDuration, encodeOk)]
  /\ UNCHANGED << handlerVars, ksVars, trimVars, zoomVars, lastCall, now, conc,
                  disk, assCall, transitionCall, detectCall, fillerDetectCall,
                  zoomGraphCall,
                  fillerStageCall, poll >>

\* ----------------------------------------------------------- addTransition
\* getTransitionById and existsSync: the error thrown, if any
ResolveTransition(inCatalog, fileExists) ==
  IF ~inCatalog THEN "transition not found"
  ELSE IF ~fileExists THEN "file not found"
  ELSE "none"

\* the filters of filterComplex before the concat, and the kind of stream
\* each one writes
TransitionFilters(transitionStart) ==
  << Filter(<< "0:v" >>, "split", JsNum(2), "before"),
     Filter(<< "0:v" >>, "split", JsNum(2), "after"),
     Filter(<< "0:a" >>, "asplit", JsNum(2), "before_audio"),
     Filter(<< "0:a" >>, "asplit", JsNum(2), "after_audio"),
     Filter(<< "before" >>, "trim=duration", JsNum(transitionStart), "before_trimmed"),
     Filter(<< "before_audio" >>, "atrim=duration", JsNum(transitionStart),
            "before_audio_trimmed"),
     Filter(<< "after" >>, "trim=start", JsNum(transitionStart), "after_trimmed"),
     Filter(<< "after_audio" >>, "atrim=start", JsNum(transitionStart),
            "after_audio_trimmed"),
     Filter(<< "1:v" >>, "scale", undefined, "transition_scaled"),
     Filter(<< "before_trimmed" >>, "scale", undefined, "before_final"),
     Filter(<< "after_trimmed" >>, "scale", undefined, "after_final") >>

AudioFilters == { "asplit", "atrim=duration", "atrim=start" }

\* video or audio: what a label of the graph carries
RECURSIVE KindOf(_, _)
KindOf(filters, label) ==
  IF label \in { "0:v", "1:v" } THEN "video"
  ELSE IF label \in { "0:a", "1:a" } THEN "audio"
  ELSE IF \E k \in 1..Len(filters) : filters[k].out = label
  THEN LET f == filters[CHOOSE k \in 1..Len(filters) : filters[k].out = label]
       IN IF f.name \in AudioFilters THEN "audio" ELSE "video"
  ELSE "none"

\* the last element of filterComplex: the labels in front of concat=n:v:a
TransitionConcat(transitionHasAudio) ==
  [pads |-> IF transitionHasAudio
            THEN << "before_final", "before_audio_trimmed", "transition_scaled",
                    "1:a", "after_final", "after_audio_trimmed" >>
            ELSE << "before_final", "before_audio_trimmed", "transition_scaled",
                    "after_final", "after_audio_trimmed" >>,
   n |-> 3, v |-> 1, a |-> 1]

\* concat=n:v:a takes n segments of v video pads followed by a audio pads;
\* the engine links it only if every pad gets a stream of its kind
ConcatLinked(filters, concat) ==
  /\ Len(concat.pads) = concat.n * (concat.v + concat.a)
  /\ \A p \in 1..Len(concat.pads) :
       KindOf(filters, concat.pads[p])
         = IF (p - 1) % (concat.v + concat.a) < concat.v THEN "video" ELSE "audio"

NoConcat == [pads |-> << >>, n |-> 0, v |-> 0, a |-> 0]

TransitionReturn(threw, engine, filters, concat, output) ==
  [threw |-> threw, engine |-> engine, filters |-> filters, concat |-> concat,
   output |-> output]

\* addTransition: what it throws, the engine runs it makes, the graph it
\* builds, and whether outputVideoPath is written.  videoDuration and
\* transitionHasAudio are what the probes return, encodeOk is the engine's
\* exit on a graph it can link.
addTransition(inCatalog, fileExists, transitionTime, videoDuration, transitionHasAudio, encodeOk) ==
  LET notFound == ResolveTransition(inCatalog, fileExists)
      filters == TransitionFilters(transitionTime)
      concat == TransitionConcat(transitionHasAudio)
      ok == encodeOk /\ ConcatLinked(filters, concat)
  IN IF notFound # "none"
     THEN TransitionReturn(notFound, << >>, << >>, NoConcat, FALSE)
     ELSE IF transitionTime < 0
     THEN TransitionReturn("transition time must be positive", << "ffprobe" >>,
                           << >>, NoConcat, FALSE)
     ELSE IF transitionTime >= videoDuration
     THEN TransitionReturn("transition time must be less than video duration",
                           << "ffprobe" >>, << >>, NoConcat, FALSE)
     ELSE TransitionReturn(IF ok THEN "none" ELSE "ffmpeg failed",
                           << "ffprobe", "ffprobe", "ffprobe", "ffmpeg" >>,
                           filters, concat, ok)

NoTransitionCall == [called |-> FALSE]

\* probeVideo: the duration the probe reports for a clip of artifactDuration
\* seconds, and the default it returns when the probe run fails
ProbeDefault == 10

probeVideo(probeOk, artifactDuration) ==
  IF probeOk THEN artifactDuration ELSE ProbeDefault

\* one transition step of /process-video or /apply-transitions, on a clip of
\* artifactDuration seconds
CallAddTransition(inCatalog, fileExists, transitionTime, artifactDuration, probeOk, transitionHasAudio, encodeOk) ==
  /\ ~transitionCall.called /\ ~overlayCall.called
  /\ transitionCall' =
       [called |-> TRUE, inCatalog |-> inCatalog, fileExists |-> fileExists,
        transitionTime |-> transitionTime,
        artifactDuration |-> artifactDuration, probeOk |-> probeOk,
        videoDuration |-> probeVideo(probeOk, artifactDuration),
        transitionHasAudio |-> transitionHasAudio, encodeOk |-> encodeOk,
        return |-> addTransition(inCatalog, fileExists, transitionTime,
                                 probeVideo(probeOk, artifactDuration),
                                 transitionHasAudio, encodeOk)]
  /\ UNCHANGED << handlerVars, ksVars, trimVars, zoomVars, lastCall, now, conc,
                  disk, assCall, overlayCall, detectCall, fillerDetectCall,
                  zoomGraphCall,
                  fillerStageCall, poll >>

\* ------------------------------------------------------------ detectSilence
\* how the engine's run ends: exit code 0, another exit code, or no process
Exits == { "ok", "failed", "spawn error" }

\* detectSilence: starts and ends are the silence_start and silence_end
\* values that the engine wrote to stderr
detectSilence(exit, starts, ends) ==
  IF exit = "ok"
  THEN IF starts # << >> /\ ends # << >>
       THEN [k \in 1..(IF Len(ends) < Len(starts) THEN Len(ends) ELSE Len(starts))
               |-> [start |-> starts[k], end |-> ends[k]]]
       ELSE << >>
  ELSE << >>

\* the silences an engine run can report: in order, one after the other
Reported ==
  { l \in ListsOf({ s \in [start : 0..MaxStderr, end : 0..MaxStderr] :
                      s.start < s.end }, MaxSegs) :
      \A k \in 1..(Len(l) - 1) : l[k].end <= l[k + 1].start }

StartsOf(l) == [k \in 1..Len(l) |-> l[k].start]
EndsOf(l) == [k \in 1..Len(l) |-> l[k].end]

NoDetectCall == [called |-> FALSE]

\* silenceTrim from its call of detectSilence on; when cut, the engine's
\* output stops before the last silence_end
CallSilenceTrimDetecting(exit, reported, cut, pad, encodeOk) ==
  LET starts == StartsOf(reported)
      ends == IF cut /\ reported # << >>
              THEN SubSeq(EndsOf(reported), 1, Len(reported) - 1)
              ELSE EndsOf(reported)
      segs == detectSilence(exit, starts, ends)
  IN /\ ~detectCall.called
     /\ detectCall' =
          [called |-> TRUE, exit |-> exit, starts |-> starts, ends |-> ends,
           pad |-> pad, encodeOk |-> encodeOk, silenceSegments |-> segs,
           return |-> silenceTrim(segs, pad, encodeOk)]
     /\ UNCHANGED << handlerVars, ksVars, trimVars, zoomVars, lastCall, now,
                     conc, disk, assCall, overlayCall, transitionCall,
                     fillerDetectCall, zoomGraphCall, fillerStageCall, poll >>

\* ------------------------------------------- applyZoomEffect: the filter
\* times in hundredths of a second; a trim without end runs until the end of
\* its input
WholeClipFilter == [kind |-> "whole", trims |-> << >>, concat |-> << >>]

SplitFilter(d) ==
  [kind |-> "split",
   trims |-> << [in |-> "vpre", start |-> 0, end |-> d, zoomed |-> TRUE,
                 out |-> "va"],
                [in |-> "vpost", start |-> d, end |-> UntilEnd, zoomed |-> FALSE,
                 out |-> "vb"] >>,
   concat |-> << "va", "vb" >>]

NoFilter == [kind |-> "none", trims |-> << >>, concat |-> << >>]

\* a filter that always cuts the clip in two
filterComplexAlwaysSplit(zoomDuration, clipDur) == SplitFilter(zoomDuration)

\* filterComplex of applyZoomEffect
filterComplex(zoomDuration, clipDur) ==
  IF zoomDuration >= clipDur THEN WholeClipFilter ELSE SplitFilter(zoomDuration)

\* Math.max(0.01, probe.durationSec || 0.01)
ClipDur(probeDuration) == Max(1, IF probeDuration = 0 THEN 1 ELSE probeDuration)

\* Math.min(opts.durationSec ?? clipDur, clipDur)
ZoomDuration(requested, clipDur) ==
  LET asked == IF requested = undefined THEN clipDur ELSE requested.v
  IN IF asked < clipDur THEN asked ELSE clipDur

\* applyZoomEffect: the filter it hands to the engine and how it ends.
\* zoomOk and copyOk are the engine's exits on the zoom and on the copy.
applyZoomEffect(hasVideo, probeDuration, requested, zoomOk, copyOk) ==
  LET clipDur == ClipDur(probeDuration)
      zoomDuration == ZoomDuration(requested, clipDur)
      copied == IF copyOk THEN "copied" ELSE "threw"
  IN IF ~hasVideo
     THEN [clipDur |-> clipDur, filter |-> NoFilter, outcome |-> copied]
     ELSE [clipDur |-> clipDur, filter |-> filterComplex(zoomDuration, clipDur),
           outcome |-> IF zoomOk THEN "zoomed" ELSE copied]

NoZoomGraphCall == [called |-> FALSE]

CallApplyZoomEffect(hasVideo, probeDuration, requested, zoomOk, copyOk) ==
  /\ ~zoomGraphCall.called
  /\ zoomGraphCall' =
       [called |-> TRUE, hasVideo |-> hasVideo, probeDuration |-> probeDuration,
        requested |-> requested, zoomOk |-> zoomOk, copyOk |-> copyOk,
        return |-> applyZoomEffect(hasVideo, probeDuration, requested, zoomOk,
                                   copyOk)]
  /\ UNCHANGED << handlerVars, ksVars, trimVars, zoomVars, lastCall, now, conc,
                  disk, assCall, overlayCall, transitionCall, detectCall,
                  fillerDetectCall, fillerStageCall, poll >>

\* -------------------------------------------------------- detectFillerWords
\* times in tenths of a second (the sample of index k is at k * 0.1 s),
\* levels and thresholds in tenths of a dB, the sensitivity in tenths
null == -1

\* -30 - (sensitivity * 5)
Threshold(sensitivity) == (0 - 300) - sensitivity * 5

\* rmsValue > threshold && rmsValue < -10
isFillerCandidate(rmsValue, threshold) ==
  rmsValue > threshold /\ rmsValue < 0 - 100

\* duration >= minDuration && duration <= maxDuration
InRange(duration, minDuration, maxDuration) ==
  duration >= minDuration /\ duration <= maxDuration

FillerSegment(start, end) == [start |-> start, end |-> end]

\* the callback of rmsMatches.forEach, from the sample of this index on
RECURSIVE ForEachSample(_, _, _, _, _, _, _)
ForEachSample(rms, index, currentSegmentStart, segments, threshold, minDuration, maxDuration) ==
  IF index >= Len(rms)
  THEN [currentSegmentStart |-> currentSegmentStart, segments |-> segments]
  ELSE LET timeStamp == index
           duration == timeStamp - currentSegmentStart
       IN IF isFillerCandidate(rms[index + 1], threshold)
          THEN ForEachSample(rms, index + 1,
                             IF currentSegmentStart = null THEN timeStamp
                             ELSE currentSegmentStart,
                             segments, threshold, minDuration, maxDuration)
          ELSE IF currentSegmentStart # null
          THEN ForEachSample(rms, index + 1, null,
                             IF InRange(duration, minDuration, maxDuration)
                             THEN Append(segments,
                                         FillerSegment(currentSegmentStart, timeStamp))
                             ELSE segments,
                             threshold, minDuration, maxDuration)
          ELSE ForEachSample(rms, index + 1, null, segments, threshold,
                             minDuration, maxDuration)

\* a trace whose last run is left open
CloseOpenRunNever(rms, currentSegmentStart, segments, minDuration, maxDuration) == segments

\* the block after the loop: the run that is still open at the last sample
CloseOpenRun(rms, currentSegmentStart, segments, minDuration, maxDuration) ==
  IF currentSegmentStart # null /\ Len(rms) > 0
  THEN LET endTime == Len(rms) - 1
           duration == endTime - currentSegmentStart
       IN IF InRange(duration, minDuration, maxDuration)
          THEN Append(segments, FillerSegment(currentSegmentStart, endTime))
          ELSE segments
  ELSE segments

\* detectFillerWords: rms holds the RMS levels that the engine printed
detectFillerWords(exit, rms, sensitivity, minDuration, maxDuration) ==
  IF exit = "spawn error" THEN [rejected |-> TRUE, segments |-> << >>]
  ELSE IF exit = "ok" /\ Len(rms) > 0
  THEN LET loop == ForEachSample(rms, 0, null, << >>, Threshold(sensitivity),
                                 minDuration, maxDuration)
       IN [rejected |-> FALSE,
           segments |-> CloseOpenRun(rms, loop.currentSegmentStart,
                                     loop.segments, minDuration, maxDuration)]
  ELSE [rejected |-> FALSE, segments |-> << >>]

\* sensitivity: 0.7, in tenths
Sensitivity == 7

\* minFillerDuration and maxFillerDuration: 0.1 s and 2.0 s as the handler
\* passes them, and a narrower range
MinDurations == { 1, 2 }
MaxDurations == { 3, 20 }

\* levels at the two edges of the band, which are outside it, and inside it
Levels == { Threshold(Sensitivity), 0 - 200, 0 - 100 }
Traces == ListsOf(Levels, MaxSamples)

NoFillerDetectCall == [called |-> FALSE]

CallDetectFillerWords(exit, rms, minDuration, maxDuration) ==
  /\ ~fillerDetectCall.called
  /\ fillerDetectCall' =
       [called |-> TRUE, exit |-> exit, rms |-> rms,
        minDuration |-> minDuration, maxDuration |-> maxDuration,
        return |-> detectFillerWords(exit, rms, Sensitivity, minDuration,
                                     maxDuration)]
  /\ UNCHANGED << handlerVars, ksVars, trimVars, zoomVars, lastCall, now, conc,
                  disk, assCall, overlayCall, transitionCall, detectCall,
                  zoomGraphCall,
                  fillerStageCall, poll >>

\* ----------------------------------------------- fillerWordTrim, as a whole
\* extractAudioForAnalysis: rejects unless the engine exits with 0, and
\* then the temporary audio has been written
extractAudioForAnalysis(exit) ==
  [rejected |-> exit # "ok", written |-> exit = "ok"]

\* getVideoDuration: the duration of the format, or 0 when the probe exits
\* with another code, cannot be started or prints no duration
getVideoDuration(exit, duration) == IF exit = "ok" THEN duration ELSE 0

\* trimAndConcatVideo: resolves with the success of the run, rejects when
\* the engine cannot be started
trimAndConcatVideo(exit) ==
  [rejected |-> exit = "spawn error", success |-> exit = "ok"]

StageReturn(return, created, tempAudio, keep) ==
  [return |-> return, created |-> created, tempAudio |-> tempAudio,
   keepSegments |-> keep]

\* fillerWordTrim on a clip whose levels are rms, one every tenth of a
\* second, with the options the handler passes: what it returns, whether
\* the temporary audio was created, whether it still exists at the return,
\* and the segments given to the trim
fillerWordTrimStage(fileExists, extractExit, detectExit, rms, probeExit, encodeExit) ==
  LET failed == TrimReturn(FALSE, "undefined", FALSE)
      audio == extractAudioForAnalysis(extractExit)
      detected == detectFillerWords(detectExit, rms, Sensitivity, 1, 20)
      keep == buildKeepSegments(detected.segments,
                                getVideoDuration(probeExit, Len(rms)))
      trimRun == trimAndConcatVideo(encodeExit)
  IN IF ~fileExists THEN StageReturn(failed, FALSE, FALSE, << >>)
     ELSE IF audio.rejected THEN StageReturn(failed, FALSE, FALSE, << >>)
     ELSE IF detected.rejected THEN StageReturn(failed, TRUE, TRUE, << >>)
     ELSE IF Len(detected.segments) = 0
     THEN StageReturn(TrimReturn(TRUE, "videoPath", FALSE), TRUE, FALSE, << >>)
     ELSE IF Len(keep) = 0 THEN StageReturn(failed, TRUE, FALSE, keep)
     ELSE IF trimRun.rejected \/ ~trimRun.success
     THEN StageReturn(TrimReturn(FALSE, "undefined", TRUE), TRUE, FALSE, keep)
     ELSE StageReturn(TrimReturn(TRUE, "outputPath", TRUE), TRUE, FALSE, keep)

NoFillerStageCall == [called |-> FALSE]

CallFillerWordTrimStage(fileExists, extractExit, detectExit, rms, probeExit, encodeExit) ==
  /\ ~fillerStageCall.called
  /\ fillerStageCall' =
       [called |-> TRUE, fileExists |-> fileExists,
        extractExit |-> extractExit, detectExit |-> detectExit, rms |-> rms,
        probeExit |-> probeExit, encodeExit |-> encodeExit,
        return |-> fillerWordTrimStage(fileExists, extractExit, detectExit,
                                       rms, probeExit, encodeExit)]
  /\ UNCHANGED << handlerVars, ksVars, trimVars, zoomVars, lastCall, now, conc,
                  disk, assCall, overlayCall, transitionCall, detectCall,
                  fillerDetectCall, zoomGraphCall, poll >>

\* --------------------------------------------------------- transcribeAudio
\* transcribeAudio awaits uploadAudio, startTranscription and
\* pollTranscription in turn.  poll.phase is the await it stands at,
\* poll.status the status of the transcript at the service, poll.seen what
\* the last status request answered, poll.raisedBy the function that threw,
\* poll.slept whether pollTranscription has waited between two requests.
Statuses == { "queued", "processing", "completed", "error" }

NoPoll ==
  [phase |-> "uploadAudio", status |-> "none", seen |-> "none",
   raisedBy |-> "none", slept |-> FALSE]

\* what the handlers and the other functions leave alone, but for poll
othersButPoll ==
  << ksVars, trimVars, zoomVars, lastCall, now, conc, disk, assCall,
     overlayCall, transitionCall, detectCall, fillerDetectCall, zoomGraphCall,
     fillerStageCall >>

\* a body of the loop that takes the status 'error' for one more to wait on
pollStatusWaitsOnError(status) ==
  IF status = "completed" THEN "return" ELSE "setTimeout"

\* the body of while (true) after a status request has answered
pollStatus(status) ==
  IF status = "completed" THEN "return"
  ELSE IF status = "error" THEN "throw"
  ELSE "setTimeout"

\* the catch of transcribeAudio rethrows into the handler
TranscribeThrew(by, seen) ==
  /\ poll' = [poll EXCEPT !.phase = "threw", !.raisedBy = by, !.seen = seen]
  /\ TranscribeContinue("throw")

\* axios.post of the upload has answered or failed
UploadAudioDone(ok) ==
  /\ pc = "transcribeAudio" /\ poll.phase = "uploadAudio"
  /\ IF ok
     THEN /\ poll' = [poll EXCEPT !.phase = "startTranscription"]
          /\ UNCHANGED handlerVars
     ELSE TranscribeThrew("uploadAudio", "request failed")
  /\ UNCHANGED othersButPoll

\* axios.post of the transcript has answered or failed; pollTranscription
\* sends its first status request
StartTranscriptionDone(ok) ==
  /\ pc = "transcribeAudio" /\ poll.phase = "startTranscription"
  /\ IF ok
     THEN /\ poll' = [poll EXCEPT !.phase = "get", !.status = "queued"]
          /\ UNCHANGED handlerVars
     ELSE TranscribeThrew("startTranscription", "request failed")
  /\ UNCHANGED othersButPoll

\* the service moves the transcript on
ServiceAdvances(status) ==
  /\ pc = "transcribeAudio" /\ poll.phase \in { "get", "setTimeout" }
  /\ \/ poll.status = "queued" /\ status \in { "processing", "error" }
     \/ poll.status = "processing" /\ status \in { "completed", "error" }
  /\ poll' = [poll EXCEPT !.status = status]
  /\ UNCHANGED handlerVars
  /\ UNCHANGED othersButPoll

\* axios.get of the status has answered or failed; hasWords tells whether
\* a completed transcript holds any word
StatusRequestDone(ok, hasWords) ==
  /\ pc = "transcribeAudio" /\ poll.phase = "get"
  /\ IF ~ok THEN TranscribeThrew("pollTranscription", "request failed")
     ELSE IF pollStatus(poll.status) = "return"
     THEN /\ poll' = [poll EXCEPT !.phase = "returned", !.seen = poll.status]
          /\ TranscribeContinue(IF hasWords THEN "segments" ELSE "empty")
     ELSE IF pollStatus(poll.status) = "throw"
     THEN TranscribeThrew("pollTranscription", poll.status)
     ELSE /\ poll' = [poll EXCEPT !.phase = "setTimeout", !.seen = poll.status,
                                  !.slept = TRUE]
          /\ UNCHANGED handlerVars
  /\ UNCHANGED othersButPoll

\* the timer of 5 s has fired; the next status request is sent
TimerFired ==
  /\ pc = "transcribeAudio" /\ poll.phase = "setTimeout"
  /\ poll' = [poll EXCEPT !.phase = "get"]
  /\ UNCHANGED handlerVars
  /\ UNCHANGED othersButPoll

\* no function has been called on its own
CallsIdle ==
  /\ assCall = NoAssCall
  /\ overlayCall = NoOverlayCall
  /\ transitionCall = NoTransitionCall
  /\ detectCall = NoDetectCall
  /\ fillerDetectCall = NoFillerDetectCall
  /\ zoomGraphCall = NoZoomGraphCall
  /\ fillerStageCall = NoFillerStageCall
  /\ poll = NoPoll

\* --------------------------------------------------------- specifications
\* the trim functions at rest
TrimIdle ==
  /\ silenceSegments = << >> /\ padding = 0
  /\ silenceKeepSegments = << >> /\ silenceDone = TRUE
  /\ silenceTrimReturn = NoReturn /\ fillerTrimReturn = NoReturn

\* applyZoomEffect as the handler calls it, with its expressions built
ZoomIdle ==
  /\ easing = "ease-out" /\ startZoom = 120 /\ endZoom = 100
  /\ durationSec = 2
  /\ timeProgress = Clamp(durationSec)
  /\ easingExpr = easingOn(timeProgress, easing)
  /\ zExpr = ZoomText(startZoom, endZoom, easingExpr)

Init ==
  /\ InitHandler
  /\ fillerSegments = << >> /\ totalDuration = 0
  /\ keepSegments = << >> /\ ksDone = TRUE
  /\ TrimIdle /\ ZoomIdle /\ lastCall = NoCall /\ ConcIdle /\ CallsIdle

Next ==
  \/ \E rid \in Ids \cup {NoId}, hasFile \in BOOLEAN,
        trans \in TransitionLists, aud \in 0..MaxAudios :
       ReceiveProcessVideo(rid, hasFile, trans, aud)
  \/ \E outcome \in {"fail", "unchanged", "trimmed"} : SilenceTrimDone(outcome)
  \/ \E outcome \in {"fail", "unchanged", "trimmed"} : FillerTrimDone(outcome)
  \/ \E ok \in BOOLEAN : AudioExtractDone(ok)
  \/ \E outcome \in {"throw", "empty", "segments"} : TranscribeDone(outcome)
  \/ \E ok \in BOOLEAN, assOk \in BOOLEAN : ZoomDone(ok, assOk)
  \/ \E ok \in BOOLEAN, assOk \in BOOLEAN : TransitionDone(ok, assOk)
  \/ \E ok \in BOOLEAN, assOk \in BOOLEAN : OverlayDone(ok, assOk)
  \/ \E ok \in BOOLEAN : BurnDone(ok)
  \/ \E hasFile \in BOOLEAN, trans \in TransitionLists :
       ReceiveApplyTransitions(hasFile, trans)
  \/ \E ok \in BOOLEAN : ApplyTransitionDone(ok)

\* one request, from its arrival to its response
Spec == Init /\ [][Next]_vars

NextTracker ==
  \/ Next
  \/ /\ pc = "idle"
     /\ \E id \in Ids, kind \in {"LIMIT_FILE_SIZE", "Only video files", "other"} :
          UploadRejected(id, kind)

\* requests served one after the other: uploads that multer rejects, then
\* one request that is handled
SpecTracker == Init /\ [][NextTracker]_vars

InitKeep ==
  /\ InitHandler
  /\ fillerSegments \in RemovalLists
  /\ totalDuration \in 0..MaxDur
  /\ keepSegments = << >> /\ ksDone = FALSE
  /\ TrimIdle /\ ZoomIdle /\ lastCall = NoCall /\ ConcIdle /\ CallsIdle

NextKeep == CallBuildKeepSegments

\* buildKeepSegments applied to every removal list and duration in the bounds
SpecKeep == InitKeep /\ [][NextKeep]_vars

\* The two trim functions and their builders, each applied to every
\* interval list, padding and duration in the bounds.  Neither function
\* reads what the other returned, so both are given the same list; the
\* silence trim runs first, as in the pipeline.
InitTrim ==
  /\ InitHandler
  /\ \E in \in TrimInputs :
       /\ silenceSegments = in.segs /\ padding = in.pad
       /\ fillerSegments = in.segs /\ totalDuration = in.dur
  /\ keepSegments = << >> /\ ksDone = FALSE
  /\ silenceKeepSegments = << >> /\ silenceDone = FALSE
  /\ silenceTrimReturn = NoReturn /\ fillerTrimReturn = NoReturn
  /\ ZoomIdle /\ lastCall = NoCall /\ ConcIdle /\ CallsIdle

NextTrim ==
  \/ CallSilenceBuildKeepSegments
  \/ \E encodeOk \in BOOLEAN : CallSilenceTrim(encodeOk)
  \/ silenceTrimReturn # NoReturn /\ CallBuildKeepSegments
  \/ \E encodeOk \in BOOLEAN : CallFillerWordTrim(encodeOk)

SpecTrim == InitTrim /\ [][NextTrim]_vars

\* applyZoomEffect with every easing, zoom levels and duration in the bounds
InitZoom ==
  /\ InitHandler
  /\ fillerSegments = << >> /\ totalDuration = 0
  /\ keepSegments = << >> /\ ksDone = TRUE
  /\ TrimIdle
  /\ easing \in Easings
  /\ startZoom \in ZoomLevels /\ endZoom \in ZoomLevels
  /\ durationSec \in 1..MaxZoomTime
  /\ timeProgress = NoText /\ easingExpr = NoText /\ zExpr = NoText
  /\ lastCall = NoCall /\ ConcIdle /\ CallsIdle

NextZoom == BuildZoomExpressions

SpecZoom == InitZoom /\ [][NextZoom]_vars

\* the tracker under any sequence of updates and polls
NextProgress ==
  \/ \E id \in Ids \cup {NoId}, update \in Partials :
       CallUpdateProgress(id, update)
  \/ \E id \in Ids : GetProgress(id)

SpecProgress == Init /\ [][NextProgress]_vars

NextConcurrent ==
  \/ Tick
  \/ \E r \in Reqs, rnd \in Rnd : StoreUpload(r, rnd)
  \/ \E r \in Reqs : StartSilenceTrim(r)
  \/ \E r \in Reqs, trimmed \in BOOLEAN : StartFillerTrim(r, trimmed)
  \/ \E r \in Reqs, ok \in BOOLEAN : ExtractEnded(r, ok)
  \/ \E r \in Reqs, found \in BOOLEAN : DetectEnded(r, found)
  \/ \E r \in Reqs, ok \in BOOLEAN : FillerTrimEnded(r, ok)

\* two requests that overlap in time
SpecConcurrent == Init /\ [][NextConcurrent]_vars

\* generateASS on any transcription
NextAss ==
  assCall = NoAssCall
    /\ \E transcription \in ListsOf(Cues, MaxCues) : CallGenerateASS(transcription)

SpecAss == Init /\ [][NextAss]_vars

\* one overlay or one transition, on any item and any clip
NoEffectCalled == ~overlayCall.called /\ ~transitionCall.called

NextEffects ==
  \/ /\ NoEffectCalled
     /\ \E inCatalog \in BOOLEAN, fileExists \in BOOLEAN, a \in Items,
        videoDuration \in 0..MaxOverlay, bgDuration \in 1..MaxOverlay,
        encodeOk \in BOOLEAN :
       CallAddBackgroundAudio(inCatalog, fileExists, a, videoDuration,
                              bgDuration, encodeOk)
  \/ /\ NoEffectCalled
     /\ \E inCatalog \in BOOLEAN, fileExists \in BOOLEAN,
        transitionTime \in (0 - 1)..MaxOverlay,
        artifactDuration \in 0..MaxOverlay, probeOk \in BOOLEAN,
        transitionHasAudio \in BOOLEAN, encodeOk \in BOOLEAN :
       CallAddTransition(inCatalog, fileExists, transitionTime,
                         artifactDuration, probeOk, transitionHasAudio, encodeOk)

SpecEffects == Init /\ [][NextEffects]_vars

\* silenceTrim with every ending of the detection run
NextDetect ==
  /\ ~detectCall.called
  /\ \E exit \in Exits, reported \in Reported, cut \in BOOLEAN,
        pad \in 0..MaxPad, encodeOk \in BOOLEAN :
       CallSilenceTrimDetecting(exit, reported, cut, pad, encodeOk)

SpecDetect == Init /\ [][NextDetect]_vars

\* applyZoomEffect on any clip and any requested duration
NextZoomGraph ==
  /\ ~zoomGraphCall.called
  /\ \E hasVideo \in BOOLEAN, probeDuration \in 0..MaxClip,
        requested \in { undefined } \cup { JsNum(n) : n \in 0..(MaxClip + 1) },
        zoomOk \in BOOLEAN, copyOk \in BOOLEAN :
       CallApplyZoomEffect(hasVideo, probeDuration, requested, zoomOk, copyOk)

SpecZoomGraph == Init /\ [][NextZoomGraph]_vars

\* detectFillerWords on any trace
NextFillerDetect ==
  /\ ~fillerDetectCall.called
  /\ \E exit \in Exits, rms \in Traces, minDuration \in MinDurations,
        maxDuration \in MaxDurations :
       CallDetectFillerWords(exit, rms, minDuration, maxDuration)

SpecFillerDetect == Init /\ [][NextFillerDetect]_vars

\* one request whose cleanup may fail at any of its deletions
NextFinalize ==
  \/ \E rid \in Ids \cup {NoId}, hasFile \in BOOLEAN,
        trans \in TransitionLists, aud \in 0..MaxAudios :
       ReceiveProcessVideo(rid, hasFile, trans, aud)
  \/ \E outcome \in {"fail", "unchanged", "trimmed"} : SilenceTrimDone(outcome)
  \/ \E outcome \in {"fail", "unchanged", "trimmed"} : FillerTrimDone(outcome)
  \/ \E ok \in BOOLEAN : AudioExtractDone(ok)
  \/ \E outcome \in {"throw", "empty", "segments"} : TranscribeDone(outcome)
  \/ \E ok \in BOOLEAN, assOk \in BOOLEAN : ZoomDone(ok, assOk)
  \/ \E ok \in BOOLEAN, assOk \in BOOLEAN : TransitionDone(ok, assOk)
  \/ \E ok \in BOOLEAN, assOk \in BOOLEAN : OverlayDone(ok, assOk)
  \/ \E failAt \in 0..7 : BurnDoneDeleting(failAt)

SpecFinalize == Init /\ [][NextFinalize]_vars

\* fillerWordTrim on any clip, with every ending of its four engine runs
NextFillerStage ==
  /\ ~fillerStageCall.called
  /\ \E fileExists \in BOOLEAN, extractExit \in Exits, detectExit \in Exits,
        rms \in Traces, probeExit \in Exits, encodeExit \in Exits :
       CallFillerWordTrimStage(fileExists, extractExit, detectExit, rms,
                               probeExit, encodeExit)

SpecFillerStage == Init /\ [][NextFillerStage]_vars

\* the steps of one /process-video request whose transcription is followed
\* request by request
RunSteps ==
  \/ \E outcome \in {"fail", "unchanged", "trimmed"} : SilenceTrimDone(outcome)
  \/ \E outcome \in {"fail", "unchanged", "trimmed"} : FillerTrimDone(outcome)
  \/ \E ok \in BOOLEAN : AudioExtractDone(ok)
  \/ \E ok \in BOOLEAN : UploadAudioDone(ok)
  \/ \E ok \in BOOLEAN : StartTranscriptionDone(ok)
  \/ \E ok \in BOOLEAN, hasWords \in BOOLEAN : StatusRequestDone(ok, hasWords)
  \/ TimerFired
  \/ \E ok \in BOOLEAN, assOk \in BOOLEAN : ZoomDone(ok, assOk)
  \/ \E ok \in BOOLEAN, assOk \in BOOLEAN : TransitionDone(ok, assOk)
  \/ \E ok \in BOOLEAN, assOk \in BOOLEAN : OverlayDone(ok, assOk)
  \/ \E ok \in BOOLEAN : BurnDone(ok)

ServiceSteps == \E status \in Statuses : ServiceAdvances(status)

\* requests with at most one transition and one overlay: what follows the
\* transcription is one pass through each loop
NextPolling ==
  \/ \E rid \in {"r1", NoId}, hasFile \in BOOLEAN,
        trans \in {t \in TransitionLists : Len(t) <= 1}, aud \in 0..1 :
       ReceiveProcessVideo(rid, hasFile, trans, aud)
  \/ RunSteps
  \/ ServiceSteps

\* Every engine run and every request to the service ends, so the step
\* that waits for it is taken; the service brings the transcript to
\* 'completed' or 'error'.
SpecPolling ==
  Init /\ [][NextPolling]_vars /\ WF_vars(RunSteps) /\ WF_vars(ServiceSteps)

\* ------------------------------------------------------------- properties
HardFailStages ==
  {"silenceTrim", "audioExtract", "transcribeAudio", "generateASS",
   "burnSubtitles"}
SoftFailStages == {"fillerWordTrim", "applyZoomEffect"}
\* the stages that take the current artifact as their input
ArtifactStages ==
  {"silenceTrim", "fillerWordTrim", "audioExtract", "applyZoomEffect",
   "addTransition", "addBackgroundAudio", "burnSubtitles"}
Intermediates ==
  {TrimmedPath, FillerTrimmedPath, ExtractedAudioPath, ZoomedPath, AssPath}
    \cup {TransitionStepOut(n) : n \in 1..(MaxTrans + 1)}
    \cup {AudioStepOut(n) : n \in 1..(MaxAudios + 1)}

LogIdx == 1..Len(stageLog)
Succeeded == pc = "done" /\ Len(responses) = 1 /\ responses[1].status = 200
\* the next stage after position k that takes the current artifact
NextArtifactStage(k) ==
  {j \in LogIdx : /\ j > k
                  /\ stageLog[j].stage \in ArtifactStages
                  /\ \A m \in (k + 1)..(j - 1) :
                       stageLog[m].stage \notin ArtifactStages}
TransitionIdx == {k \in LogIdx : stageLog[k].stage = "addTransition"}
OverlayIdx == {k \in LogIdx : stageLog[k].stage = "addBackgroundAudio"}
\* the entry has its artifact from the list item before it, or starts the list
ChainedTo(k, idx) ==
  IF k - 1 \in idx THEN stageLog[k].input = stageLog[k - 1].output
  ELSE \A j \in idx : j >= k

\* C1: the percent values a run writes to its tracker entry never decrease,
\* from its first update to the update that sets done.
C1_PercentNonDecreasing ==
  \A k \in 1..(Len(percentLog) - 1) : percentLog[k] <= percentLog[k + 1]

\* C2: once a hard-fail stage of /process-video has failed, it is the last
\* stage invoked, the one response is a 500 with success=false and an error,
\* and the tracker entry of the request id has done=true and an error.
C2_HardFailAborts ==
  \A k \in LogIdx :
    (route = "process-video" /\ stageLog[k].stage \in HardFailStages
       /\ stageLog[k].result = "failed")
    => /\ k = Len(stageLog)
       /\ pc = "done"
       /\ Len(responses) = 1
       /\ responses[1].status = 500
       /\ responses[1].success = FALSE
       /\ responses[1].error # "none"
       /\ requestId # NoId =>
            /\ requestId \in DOMAIN progressMap
            /\ progressMap[requestId].done
            /\ "error" \in DOMAIN progressMap[requestId]

C2_Witness ==
  /\ requestId # NoId
  /\ \E k \in LogIdx : /\ stageLog[k].stage = "burnSubtitles"
                       /\ stageLog[k].result = "failed"

\* C3: a failed filler trim or zoom does not end the run: a next stage is
\* invoked, the next stage that takes the artifact gets the very input of
\* the failed stage, and a 500 is only ever the answer to a failed
\* hard-fail stage.
C3_SoftFailContinues ==
  /\ \A k \in LogIdx :
       (stageLog[k].stage \in SoftFailStages /\ stageLog[k].result = "failed")
       => /\ k < Len(stageLog)
          /\ \A j \in NextArtifactStage(k) :
               stageLog[j].input = stageLog[k].input
  /\ (route = "process-video" /\ Len(responses) > 0
        /\ responses[1].status = 500)
     => /\ stageLog[Len(stageLog)].stage \in HardFailStages
        /\ stageLog[Len(stageLog)].result = "failed"

C3_Witness ==
  /\ Succeeded
  /\ \E k \in LogIdx : /\ stageLog[k].stage = "fillerWordTrim"
                       /\ stageLog[k].result = "failed"
  /\ \E k \in LogIdx : /\ stageLog[k].stage = "applyZoomEffect"
                       /\ stageLog[k].result = "failed"

\* C4: the splices run in non-decreasing order of their items' time, each
\* on the output of the splice before it, and once the list is through with
\* no failure every item submitted was spliced exactly once.
C4_TransitionsInTimeOrder ==
  /\ \A j, k \in TransitionIdx :
       j < k => transitions[stageLog[j].item] <= transitions[stageLog[k].item]
  /\ \A k \in TransitionIdx : ChainedTo(k, TransitionIdx)
  /\ ((\A k \in TransitionIdx : stageLog[k].result = "ok")
        /\ \/ route = "apply-transitions" /\ Succeeded
           \/ \E k \in LogIdx :
                stageLog[k].stage \in {"addBackgroundAudio", "generateASS"})
     => /\ Cardinality(TransitionIdx) = Len(transitions)
        /\ {stageLog[k].item : k \in TransitionIdx} = 1..Len(transitions)

C4_Witness ==
  /\ transitions = << 3, 1 >>
  /\ \E j, k \in TransitionIdx :
       /\ j < k
       /\ stageLog[j].item = 2 /\ stageLog[j].result = "ok"
       /\ stageLog[k].item = 1 /\ stageLog[k].result = "ok"

\* C5: in /process-video a transition that fails is the last one tried, the
\* run goes on, and the next stage that takes the artifact (the overlays, or
\* the burn-in) gets the input of the failed splice: the output of the
\* splice before it, or the artifact from before the transitions.
C5_TransitionFailureStopsList ==
  \A k \in TransitionIdx :
    (route = "process-video" /\ stageLog[k].result = "failed")
    => /\ k < Len(stageLog)
       /\ \A j \in TransitionIdx : j <= k
       /\ ChainedTo(k, TransitionIdx)
       /\ \A j \in NextArtifactStage(k) :
            /\ stageLog[j].stage \in {"addBackgroundAudio", "burnSubtitles"}
            /\ stageLog[j].input = stageLog[k].input

C5_Witness ==
  /\ route = "process-video"
  /\ Len(transitions) = 2
  /\ \E k \in TransitionIdx :
       /\ stageLog[k].result = "failed"
       /\ k - 1 \in TransitionIdx
       /\ k + 1 \in OverlayIdx

\* C6: the overlays run in the order supplied, each on the output of the
\* one before it; an overlay that fails is the last one tried, the run goes
\* on and the burn-in gets the input of the failed overlay.
C6_OverlaysInOrder ==
  /\ \A k \in OverlayIdx :
       /\ stageLog[k].item = Cardinality({j \in OverlayIdx : j <= k})
       /\ ChainedTo(k, OverlayIdx)
  /\ \A k \in OverlayIdx :
       stageLog[k].result = "failed"
       => /\ k < Len(stageLog)
          /\ \A j \in OverlayIdx : j <= k
          /\ \A j \in NextArtifactStage(k) :
               /\ stageLog[j].stage = "burnSubtitles"
               /\ stageLog[j].input = stageLog[k].input

C6_Witness ==
  \E k \in OverlayIdx :
    /\ stageLog[k].result = "failed"
    /\ stageLog[k].item = 2
    /\ stageLog[k - 1].result = "ok"
    /\ \E j \in LogIdx : stageLog[j].stage = "burnSubtitles"

C8_NoIntermediateOutlivesRun ==
  (route = "process-video" /\ pc = "done") => files \cap Intermediates = {}

\* C9: the step that sends the success response of a run with a request id
\* leaves that id's entry at percent=100, done=true, with no error.
C9_SuccessEntryClean ==
  [][(pc # "done" /\ pc' = "done" /\ responses'[1].status = 200
        /\ route' = "process-video" /\ requestId' # NoId)
     => /\ progressMap'[requestId'].percent = 100
        /\ progressMap'[requestId'].done
        /\ "error" \notin DOMAIN progressMap'[requestId']]_vars

\* C10: for a removal list sorted by start with no overlap and a
\* totalDuration beyond its last end, every unit of [0, totalDuration] lies
\* in exactly one keep segment or removal, and no keep segment leaves
\* [0, totalDuration].
Covers(seq, c) == {k \in 1..Len(seq) : seq[k].start <= c /\ c < seq[k].end}

C10_KeepAndRemovalsPartition ==
  (/\ ksDone
   /\ totalDuration > 0
   /\ \A k \in 1..Len(fillerSegments) : fillerSegments[k].end < totalDuration)
  => /\ \A c \in 0..(totalDuration - 1) :
          Cardinality(Covers(keepSegments, c))
            + Cardinality(Covers(fillerSegments, c)) = 1
     /\ \A k \in 1..Len(keepSegments) :
          /\ 0 <= keepSegments[k].start
          /\ keepSegments[k].start < keepSegments[k].end
          /\ keepSegments[k].end <= totalDuration

C10_Witness ==
  /\ ksDone
  /\ Len(fillerSegments) = 2
  /\ fillerSegments[2].end < totalDuration
  /\ Len(keepSegments) = 3

\* the removal list leaves no unit of [0, total] uncovered
CoversAll(segs, total) ==
  total > 0 /\ \A c \in 0..(total - 1) : Covers(segs, c) # {}

\* C11: when the removals cover the whole of [0, totalDuration], each
\* builder returns the empty sequence, neither trim function invokes its
\* trim/concat encode, and silenceTrim returns a failure (which the handler
\* answers by aborting the run).
C11_FullCoverIsRejected ==
  /\ (ksDone /\ fillerTrimReturn # NoReturn
        /\ CoversAll(fillerSegments, totalDuration))
     => (keepSegments = << >> /\ ~fillerTrimReturn.encoded)
  /\ (silenceDone /\ silenceTrimReturn # NoReturn
        /\ CoversAll(silenceSegments, totalDuration))
     => /\ silenceKeepSegments = << >>
        /\ ~silenceTrimReturn.encoded
        /\ ~silenceTrimReturn.success

\* C12: each builder, given the empty removal list and a duration above 0,
\* returns exactly one keep segment, from 0 to the end of the video (the
\* duration for the filler builder, "until the end" for the silence one).
C12_EmptyListKeepsAll ==
  /\ (ksDone /\ fillerSegments = << >> /\ totalDuration > 0)
     => keepSegments = << [start |-> 0, end |-> totalDuration] >>
  /\ (silenceDone /\ silenceSegments = << >> /\ totalDuration > 0)
     => silenceKeepSegments = << [start |-> 0, end |-> UntilEnd] >>

C12_Witness ==
  /\ ksDone /\ silenceDone
  /\ fillerSegments = << >> /\ silenceSegments = << >>
  /\ totalDuration > 0
  /\ Len(keepSegments) = 1 /\ Len(silenceKeepSegments) = 1

\* the silences lie inside the clip with room for the padding: the first
\* starts after the padding, every gap is wider than twice the padding, and
\* the last ends more than the padding before the end
PaddedSilences ==
  /\ Len(silenceSegments) >= 1
  /\ silenceSegments[1].start > padding
  /\ \A k \in 1..(Len(silenceSegments) - 1) :
       silenceSegments[k + 1].start - silenceSegments[k].end > 2 * padding
  /\ silenceSegments[Len(silenceSegments)].end + padding < totalDuration

\* C13: for n padded silences the silence builder returns n + 1 keep
\* segments: from 0 to the first start less the padding, from each end plus
\* the padding to the next start less the padding, and from the last end
\* plus the padding to the end of the video.
C13_PaddedKeepSegments ==
  (silenceDone /\ PaddedSilences)
  => LET n == Len(silenceSegments)
     IN /\ Len(silenceKeepSegments) = n + 1
        /\ \A k \in 1..(n + 1) :
             /\ silenceKeepSegments[k].start =
                  IF k = 1 THEN 0 ELSE silenceSegments[k - 1].end + padding
             /\ IF k = n + 1
                THEN silenceKeepSegments[k].end \in {UntilEnd, totalDuration}
                ELSE silenceKeepSegments[k].end =
                       silenceSegments[k].start - padding

\* the times at which a zoom text is evaluated: from 0 to past the duration
ZoomTimes == 0..(MaxZoomTime + 1)

\* the four curves, as functions of a fraction p
Ease(e, p) ==
  CASE e = "linear" -> p
    [] e = "ease-in" -> RMul(p, p)
    [] e = "ease-out" ->
         RSub(<< 1, 1 >>, RMul(RSub(<< 1, 1 >>, p), RSub(<< 1, 1 >>, p)))
    [] OTHER -> RMul(RMul(p, p), RSub(<< 3, 1 >>, RMul(<< 2, 1 >>, p)))

\* C14: the easing text built by easingOn over the time progress has value
\* 0 at progress 0 and 1 at progress 1, and its value never decreases as
\* the progress goes from 0 to 1, for each of the four curves.
C14_EasingMonotone ==
  zExpr # NoText
  => /\ REq(Eval(easingExpr, 0), << 0, 1 >>)
     /\ REq(Eval(easingExpr, durationSec), << 1, 1 >>)
     /\ \A t1, t2 \in 0..durationSec :
          t1 <= t2 => RLe(Eval(easingExpr, t1), Eval(easingExpr, t2))

C14_Witness ==
  /\ zExpr # NoText /\ easing = "ease-in-out" /\ durationSec = MaxZoomTime
  /\ ~REq(Eval(easingExpr, 1), Eval(easingExpr, 2))

\* C15: at every progress p in [0, 1] the ease-in text at p has the value
\* of 1 minus the ease-out text at 1 - p.
C15_EaseInMirrorsEaseOut ==
  zExpr # NoText
  => \A t \in 0..durationSec :
       REq(Eval(easingOn(timeProgress, "ease-in"), t),
           RSub(<< 1, 1 >>,
                Eval(easingOn(timeProgress, "ease-out"), durationSec - t)))

C15_Witness ==
  /\ zExpr # NoText /\ durationSec = 3
  /\ REq(Eval(easingOn(timeProgress, "ease-in"), 1), << 1, 9 >>)
  /\ REq(Eval(easingOn(timeProgress, "ease-out"), 2), << 8, 9 >>)

\* C16: at every time t the zoom text has the value
\* startZoom + (endZoom - startZoom) * ease(clamp(t / durationSec, 0, 1)):
\* startZoom at 0, endZoom from durationSec on.
C16_ZoomFactor ==
  zExpr # NoText
  => \A t \in ZoomTimes :
       REq(Eval(zExpr, t),
           RAdd(<< startZoom, 100 >>,
                RMul(<< endZoom - startZoom, 100 >>,
                     Ease(easing, ClampValue(t, durationSec)))))

\* C17: an update on an unknown id creates its entry; an update on a known
\* id sets exactly the fields of the partial state and keeps the others;
\* no update touches another id's entry; a poll answers with the stored
\* entry, or with percent 0 and done false for an unknown id, and leaves
\* the tracker as it was.
C17_UpdateMergesGetReads ==
  [][LET id == lastCall'.id
         u == lastCall'.update
     IN /\ (lastCall'.op = "update" /\ id # NoId)
           => /\ id \in DOMAIN progressMap'
              /\ \A k \in DOMAIN u : progressMap'[id][k] = u[k]
              /\ id \in DOMAIN progressMap
                 => /\ DOMAIN progressMap'[id] = DOMAIN progressMap[id] \cup DOMAIN u
                    /\ \A k \in DOMAIN progressMap[id] \ DOMAIN u :
                         progressMap'[id][k] = progressMap[id][k]
              /\ DOMAIN progressMap' = DOMAIN progressMap \cup {id}
              /\ \A o \in DOMAIN progressMap \ {id} :
                   progressMap'[o] = progressMap[o]
        /\ lastCall'.op = "get"
           => /\ progressMap' = progressMap
              /\ IF id \in DOMAIN progressMap
                 THEN lastCall'.response = progressMap[id]
                 ELSE /\ lastCall'.response.percent = 0
                      /\ ~lastCall'.response.done]_vars

C17_Witness ==
  /\ lastCall.op = "update" /\ lastCall.id = "r1"
  /\ DOMAIN lastCall.update = {"percent"}
  /\ "r1" \in DOMAIN progressMap
  /\ progressMap["r1"].message = "m"
  /\ "error" \in DOMAIN progressMap["r1"]
  /\ "r2" \in DOMAIN progressMap

\* C18: a /process-video request has sent no response while its handler
\* runs and exactly one when the handler has finished, on whichever path.
C18_ExactlyOneResponse ==
  route = "process-video"
  => Len(responses) = IF pc = "done" THEN 1 ELSE 0

C18_Witness ==
  /\ route = "process-video" /\ pc = "done"
  /\ Len(responses) = 1 /\ responses[1].status = 500
  /\ stageLog[Len(stageLog)].stage = "burnSubtitles"
  /\ stageLog[Len(stageLog)].result = "failed"

\* the place of each stage in the pipeline
StageRank(stage) ==
  CASE stage = "silenceTrim" -> 1
    [] stage = "fillerWordTrim" -> 2
    [] stage = "audioExtract" -> 3
    [] stage = "transcribeAudio" -> 4
    [] stage = "applyZoomEffect" -> 5
    [] stage = "addTransition" -> 6
    [] stage = "addBackgroundAudio" -> 7
    [] stage = "generateASS" -> 8
    [] OTHER -> 9
ListRanks == {6, 7}

\* C19: in a /process-video run the stages start in the order silence trim,
\* filler trim, audio extraction, transcription, zoom, transitions,
\* overlays, caption generation, burn-in: none is started twice except the
\* items of a list, none of the stages outside the lists is skipped, and a
\* stage starts only when every stage started before it has finished.
C19_StagesInOrder ==
  route = "process-video"
  => /\ \A k \in LogIdx :
          /\ k < Len(stageLog) => stageLog[k].result # "pending"
          /\ k = 1 => stageLog[k].stage = "silenceTrim"
          /\ k > 1 =>
               LET r == StageRank(stageLog[k].stage)
                   q == StageRank(stageLog[k - 1].stage)
               IN /\ q <= r
                  /\ q = r => r \in ListRanks
                  /\ \A m \in (q + 1)..(r - 1) : m \in ListRanks

C19_Witness ==
  /\ route = "process-video" /\ pc = "done" /\ responses[1].status = 200
  /\ \E k \in LogIdx : stageLog[k].stage = "addTransition"
  /\ \E k \in LogIdx : stageLog[k].stage = "addBackgroundAudio"
  /\ \A k \in LogIdx : stageLog[k].result = "ok"

\* C20: two requests in flight whose uploads were stored under different
\* names never have a path in common among those they create, read or
\* delete, the temporary analysis audio of the filler stage included.
C20_DisjointPaths ==
  conc[1].videoPath # conc[2].videoPath
  => conc[1].used \cap conc[2].used = {}
\* the pieces of s between the separators
RECURSIVE Split(_, _)
Split(s, sep) ==
  IF \A k \in 1..Len(s) : s[k] # sep THEN << s >>
  ELSE LET at == CHOOSE k \in 1..Len(s) : s[k] = sep /\ \A j \in 1..(k - 1) : s[j] # sep
       IN << SubSeq(s, 1, at - 1) >> \o Split(SubSeq(s, at + 1, Len(s)), sep)

RECURSIVE SkipSpaces(_)
SkipSpaces(s) ==
  IF s # << >> /\ s[1] \in { " ", "  " } THEN SkipSpaces(Tail(s)) ELSE s

\* the Dialogue lines of the file, in the order of the file
CuesOf(file) ==
  LET lines == Split(file, "\n")
      stripped == [k \in 1..Len(lines) |-> SkipSpaces(lines[k])]
  IN SelectSeq(stripped, LAMBDA l : l # << >> /\ l[1] = "Dialogue: ")

Letters(s) == SelectSeq(s, LAMBDA c : c \in { "a", "b", "c" })

\* the fields of a Dialogue line: Start, End, Style, Text
FieldsOf(cue) == Split(Tail(cue), ",")

AssWritten == assCall.file # NoFile

\* C21: the file generateASS writes holds exactly one Dialogue line per
\* segment of the transcription, in the order of the transcription: the k-th
\* line carries the words of the k-th segment, and an empty transcription
\* gives a file without Dialogue lines.
C21_OneCuePerSegment ==
  AssWritten =>
    LET cues == CuesOf(assCall.file)
    IN /\ Len(cues) = Len(assCall.transcription)
       /\ \A k \in 1..Len(cues) :
            /\ Len(FieldsOf(cues[k])) = 4
            /\ Letters(FieldsOf(cues[k])[4]) = Letters(assCall.transcription[k].text)

\* two segments with different words, the second with a line break in its text
C21_Witness ==
  /\ AssWritten
  /\ Len(assCall.transcription) = 2
  /\ assCall.transcription[1].text = << "b", ",", "\n", "c" >>
  /\ assCall.transcription[2].text = << "a" >>
  /\ Len(CuesOf(assCall.file)) = 2

\* H:MM:SS.mmm of a time in milliseconds: the hours in two digits at least,
\* two digits of minutes, two digits of whole seconds, three of milliseconds
AssFields(t) ==
  padStart(IntToString(t \div 3600000), 2) \o << ":" >>
    \o padStart(IntToString((t % 3600000) \div 60000), 2) \o << ":" >>
    \o padStart(IntToString((t % 60000) \div 1000), 2) \o << "." >>
    \o padStart(IntToString(t % 1000), 3)

\* C22: every start and end time in the file is rendered as hours, two-digit
\* minutes, two-digit whole seconds and three-digit milliseconds that
\* together equal the time truncated to milliseconds, for whole and for
\* fractional times.
C22_TimeFields ==
  AssWritten =>
    LET cues == CuesOf(assCall.file)
    IN \A k \in 1..Len(cues) :
         /\ FieldsOf(cues[k])[1] = AssFields(assCall.transcription[k].start)
         /\ FieldsOf(cues[k])[2] = AssFields(assCall.transcription[k].end)

\* a segment that starts at 1.5 s is written with the seconds field "1.5"
C22_FractionalSeconds ==
  /\ AssWritten
  /\ Len(assCall.transcription) = 1
  /\ assCall.transcription[1].start = 1500
  /\ FieldsOf(CuesOf(assCall.file)[1])[1]
       = << "0", "0", ":", "0", "0", ":", "1", ".", "5", ".", "5", "0", "0" >>

\* C23: addTransition and addBackgroundAudio called with an id that is not in
\* the catalog, or whose file is missing, throw before any engine run (probe
\* or encode) and write no output file.
C23_UnknownAssetFailsFirst ==
  /\ (overlayCall.called /\ ~(overlayCall.inCatalog /\ overlayCall.fileExists))
       => /\ overlayCall.return.threw \in { "track not found", "file not found" }
          /\ overlayCall.return.engine = << >>
          /\ ~overlayCall.return.output
  /\ (transitionCall.called
        /\ ~(transitionCall.inCatalog /\ transitionCall.fileExists))
       => /\ transitionCall.return.threw
               \in { "transition not found", "file not found" }
          /\ transitionCall.return.engine = << >>
          /\ ~transitionCall.return.output

\* a track of the catalog whose file is gone, on a clip the engine would encode
C23_Witness ==
  /\ overlayCall.called
  /\ overlayCall.inCatalog /\ ~overlayCall.fileExists /\ overlayCall.encodeOk
  /\ overlayCall.return.threw = "file not found"
  /\ overlayCall.return.engine = << >>

\* C25: for an item without startTime or endTime, addBackgroundAudio works
\* with startTime 0 and endTime = the clip's duration in their place, so that
\* whenever it goes on to build the graph the overlay duration is a number
\* and 0 <= startTime < endTime <= duration.
C25_DefaultTimes ==
  (/\ overlayCall.called
   /\ absent \in { overlayCall.a.startTime, overlayCall.a.endTime }
   /\ "ffmpeg" \in { overlayCall.return.engine[k] :
                       k \in DOMAIN overlayCall.return.engine })
    => LET r == overlayCall.return
       IN /\ overlayCall.a.startTime = absent => r.opts.startTime = JsNum(0)
          /\ overlayCall.a.endTime = absent
               => r.opts.endTime = JsNum(overlayCall.videoDuration)
          /\ IsNumber(r.overlayDuration)
          /\ IsNumber(r.opts.startTime) /\ IsNumber(r.opts.endTime)
          /\ 0 <= r.opts.startTime.v
          /\ r.opts.startTime.v < r.opts.endTime.v
          /\ r.opts.endTime.v <= overlayCall.videoDuration

\* an item with an id only: the times stay undefined and the duration is NaN
C25_UndefinedTimes ==
  /\ overlayCall.called
  /\ overlayCall.a.startTime = absent /\ overlayCall.a.endTime = absent
  /\ overlayCall.return.opts.startTime = undefined
  /\ overlayCall.return.opts.endTime = undefined
  /\ overlayCall.return.overlayDuration = NaN
  /\ overlayCall.return.threw = "none"

\* the length in seconds of the stream that a label of the overlay graph
\* carries: aloop plays its input once and loop times more, atrim cuts at its
\* duration, volume and afade keep the length; undefined for a label that no
\* filter writes
RECURSIVE StreamDuration(_, _, _)
StreamDuration(filters, label, bgDuration) ==
  IF label = "1:a" THEN JsNum(bgDuration)
  ELSE IF ~\E k \in 1..Len(filters) : filters[k].out = label THEN undefined
  ELSE LET f == filters[CHOOSE k \in 1..Len(filters) : filters[k].out = label]
           in == StreamDuration(filters, f.in[1], bgDuration)
       IN IF ~IsNumber(in) THEN in
          ELSE IF f.name = "aloop" THEN JsNum(in.v * (f.arg.v + 1))
          ELSE IF f.name = "atrim"
          THEN IF IsNumber(f.arg) THEN JsNum(Min(in.v, f.arg.v)) ELSE NaN
          ELSE in

OverlayBuilt ==
  /\ overlayCall.called
  /\ overlayCall.return.filters # << >>
  /\ IsNumber(overlayCall.return.overlayDuration)

\* C30: the background stream that goes into the mixer lasts exactly the
\* overlay duration, both for a track at least as long as the overlay and,
\* with loop on, for a shorter track.
C30_BackgroundLastsOverlay ==
  (/\ OverlayBuilt
   /\ \/ overlayCall.bgDuration >= overlayCall.return.overlayDuration.v
      \/ Truthy(overlayCall.return.opts.loop))
    => StreamDuration(overlayCall.return.filters, "bg_processed",
                      overlayCall.bgDuration)
         = overlayCall.return.overlayDuration

\* loop on, a track of 2 s under an overlay of 3 s: aloop repeats the track
\* and nothing trims it
C30_LoopedNotTrimmed ==
  /\ OverlayBuilt
  /\ Truthy(overlayCall.return.opts.loop)
  /\ overlayCall.bgDuration = 2
  /\ overlayCall.return.overlayDuration = JsNum(3)
  /\ overlayCall.return.filters[1].name = "aloop"
  /\ \A k \in 1..Len(overlayCall.return.filters) :
       overlayCall.return.filters[k].name # "atrim"

\* C29: the graph of addTransition concatenates the head of the clip, the
\* transition and the tail of the clip in that order, and when the transition
\* clip has no audio stream the graph is one the engine links, so that
\* addTransition fails only if the encode itself fails.
C29_SpliceGraph ==
  (transitionCall.called /\ transitionCall.return.filters # << >>)
    => LET r == transitionCall.return
           videoPads == SelectSeq(r.concat.pads,
                                  LAMBDA l : KindOf(r.filters, l) = "video")
       IN /\ videoPads = << "before_final", "transition_scaled", "after_final" >>
          /\ ~transitionCall.transitionHasAudio
               => /\ ConcatLinked(r.filters, r.concat)
                  /\ transitionCall.encodeOk => r.threw = "none"

\* a transition clip without audio on a clip the engine would encode: five
\* pads for a concat of three segments of one video and one audio stream
C29_SilentTransitionFails ==
  /\ transitionCall.called
  /\ ~transitionCall.transitionHasAudio /\ transitionCall.encodeOk
  /\ Len(transitionCall.return.concat.pads) = 5
  /\ transitionCall.return.threw = "ffmpeg failed"

\* C24: when the engine run of the silence detection ends with a non-zero
\* exit or cannot be started, silenceTrim returns a failure; it never
\* returns the success of a clip without silence, on which the handler would
\* go on with the untrimmed upload.
C24_DetectionFailureSurfaces ==
  (detectCall.called /\ detectCall.exit # "ok") => ~detectCall.return.success

\* a failed run that had reported a silence: success, on the upload itself
C24_FailureReadAsNoSilence ==
  /\ detectCall.called
  /\ detectCall.exit = "failed" /\ detectCall.starts # << >>
  /\ detectCall.silenceSegments = << >>
  /\ detectCall.return = TrimReturn(TRUE, "videoPath", FALSE)

\* removal intervals as the detectors give them for a clip of the length
\* total: in order, one after the other, inside [0, total]
RemovalsInside(segs, total) ==
  /\ total > 0
  /\ \A k \in 1..Len(segs) :
       0 <= segs[k].start /\ segs[k].start < segs[k].end /\ segs[k].end <= total
  /\ \A k \in 1..(Len(segs) - 1) : segs[k].end <= segs[k + 1].start

\* keep segments in order, none overlapping the next, each inside
\* [0, total] with start < end; one that runs until the end of the video
\* starts before total and is the last
WellFormedKeep(keep, total) ==
  /\ \A k \in 1..Len(keep) :
       /\ 0 <= keep[k].start
       /\ IF keep[k].end = UntilEnd
          THEN keep[k].start < total /\ k = Len(keep)
          ELSE keep[k].start < keep[k].end /\ keep[k].end <= total
  /\ \A k \in 1..(Len(keep) - 1) : keep[k].end <= keep[k + 1].start

\* C26: for removal intervals inside the clip, the keep segments that each
\* builder returns are in order, do not overlap and satisfy
\* 0 <= start < end <= totalDuration (start < totalDuration for the silence
\* builder's segment that runs until the end), also when a removal reaches
\* the end of the clip.
C26_KeepSegmentsWellFormed ==
  /\ (ksDone /\ RemovalsInside(fillerSegments, totalDuration))
       => WellFormedKeep(keepSegments, totalDuration)
  /\ (silenceDone /\ RemovalsInside(silenceSegments, totalDuration))
       => WellFormedKeep(silenceKeepSegments, totalDuration)

\* a silence that reaches the end of the clip: the silence builder returns a
\* last segment that starts at the end of the clip or after it
C26_KeepStartsAtTheEnd ==
  /\ silenceDone /\ RemovalsInside(silenceSegments, totalDuration)
  /\ silenceSegments # << >> /\ silenceKeepSegments # << >>
  /\ silenceSegments[Len(silenceSegments)].end = totalDuration
  /\ silenceKeepSegments[Len(silenceKeepSegments)].end = UntilEnd
  /\ silenceKeepSegments[Len(silenceKeepSegments)].start >= totalDuration

InBand(rms, k) ==
  rms[k + 1] > Threshold(Sensitivity) /\ rms[k + 1] < 0 - 100

\* the maximal runs of in-band samples, each with its first and last index
MaximalRuns(rms) ==
  { run \in (0..(Len(rms) - 1)) \X (0..(Len(rms) - 1)) :
      /\ run[1] <= run[2]
      /\ \A k \in run[1]..run[2] : InBand(rms, k)
      /\ run[1] = 0 \/ ~InBand(rms, run[1] - 1)
      /\ run[2] = Len(rms) - 1 \/ ~InBand(rms, run[2] + 1) }

\* a run as a segment: from the time of its first sample to the time of the
\* first sample after it, or to the time of the last sample of the trace
RunSegment(rms, run) ==
  [start |-> run[1],
   end |-> IF run[2] = Len(rms) - 1 THEN run[2] ELSE run[2] + 1]

ExpectedFillers(rms, minDuration, maxDuration) ==
  { RunSegment(rms, run) : run \in
      { r \in MaximalRuns(rms) :
          LET seg == RunSegment(rms, r)
          IN minDuration <= seg.end - seg.start
               /\ seg.end - seg.start <= maxDuration } }

C34_InputsExist ==
  route = "process-video" =>
    /\ (pc \in ArtifactStages
          => stageLog[Len(stageLog)].input \in files)
    /\ (pc = "done" /\ responses # << >>
          /\ responses[Len(responses)].success)
         => OutputVideoPath \in files

\* the burn-in starts on the output of the second overlay, after the zoomed
\* file and the first overlay's output have been deleted by the loops
C34_Witness ==
  /\ route = "process-video" /\ pc = "burnSubtitles"
  /\ stageLog[Len(stageLog)].input = AudioStepOut(2)
  /\ AudioStepOut(2) \in files
  /\ ZoomedPath \notin files /\ AudioStepOut(1) \notin files

BurnInSucceeded ==
  /\ route = "process-video" /\ pc = "done"
  /\ stageLog # << >>
  /\ stageLog[Len(stageLog)].stage = "burnSubtitles"
  /\ stageLog[Len(stageLog)].result = "ok"

\* C31: whichever deletion of the final cleanup throws, a run whose burn-in
\* succeeded sends the one success response, the final artifact is on disk,
\* and its tracker entry reaches percent 100 with done set.
C31_DeletionFailureKeepsOutcome ==
  BurnInSucceeded =>
    /\ responses = << [status |-> 200, success |-> TRUE, error |-> "none"] >>
    /\ OutputVideoPath \in files
    /\ requestId # NoId
         => /\ progressMap[requestId].percent = 100
            /\ progressMap[requestId].done

\* the deletion of the extracted audio threw: it and the upload are still
\* on disk after the success response
C31_Witness ==
  /\ BurnInSucceeded
  /\ ExtractedAudioPath \in files /\ Upload \in files
  /\ requestId # NoId
  /\ responses[1].success

\* C36: in the graph addBackgroundAudio builds, every label a filter reads
\* is an input stream or the output of an earlier filter of the graph,
\* whatever the loop flag and whether the track is shorter than, as long as
\* or longer than the overlay.
C36_LabelsProduced ==
  (overlayCall.called /\ overlayCall.return.filters # << >>)
    => LET filters == overlayCall.return.filters
       IN \A k \in 1..Len(filters) : \A p \in 1..Len(filters[k].in) :
            \/ filters[k].in[p] \in { "0:a", "1:a" }
            \/ \E j \in 1..(k - 1) : filters[j].out = filters[k].in[p]

\* loop on and a track as long as the overlay: atrim writes [bg_trimmed] and
\* the volume filter reads [bg_looped]
C36_WrongLabelRead ==
  /\ overlayCall.called /\ overlayCall.return.filters # << >>
  /\ Truthy(overlayCall.return.opts.loop)
  /\ overlayCall.return.overlayDuration = JsNum(overlayCall.bgDuration)
  /\ overlayCall.return.filters[1].out = "bg_trimmed"
  /\ overlayCall.return.filters[2].in = << "bg_looped" >>

\* C37: addTransition runs the encode only when
\* 0 <= transitionTime < duration of the clip it is applied to; for a
\* negative time or a time at or past that duration it throws before the
\* encode and writes no output.
C37_EncodeOnlyInsideClip ==
  transitionCall.called
    => LET r == transitionCall.return
           encoded == \E k \in 1..Len(r.engine) : r.engine[k] = "ffmpeg"
           inside == /\ 0 <= transitionCall.transitionTime
                     /\ transitionCall.transitionTime
                          < transitionCall.artifactDuration
       IN /\ encoded => inside
          /\ (transitionCall.inCatalog /\ transitionCall.fileExists /\ ~inside)
               => r.threw # "none" /\ ~encoded /\ ~r.output

\* the claim with the probed duration in place of the clip's: it holds
C37_EncodeOnlyInsideProbed ==
  transitionCall.called
    => LET r == transitionCall.return
           encoded == \E k \in 1..Len(r.engine) : r.engine[k] = "ffmpeg"
           inside == /\ 0 <= transitionCall.transitionTime
                     /\ transitionCall.transitionTime
                          < transitionCall.videoDuration
       IN /\ encoded => inside
          /\ (transitionCall.inCatalog /\ transitionCall.fileExists /\ ~inside)
               => r.threw # "none" /\ ~encoded /\ ~r.output

\* the probe failed, and a transition past the end of the clip is encoded
C37_EncodedPastTheEnd ==
  /\ transitionCall.called /\ ~transitionCall.probeOk
  /\ transitionCall.transitionTime >= transitionCall.artifactDuration
  /\ transitionCall.return.output

\* the part of the clip, in tenths of a second, that the segments cover
Covered(segments) ==
  { t \in 0..MaxSamples :
      \E k \in 1..Len(segments) : segments[k].start <= t /\ t < segments[k].end }

\* one of the four engine runs that fillerWordTrim reached has failed
StageRunFailed ==
  LET c == fillerStageCall
      found == c.detectExit = "ok"
                 /\ detectFillerWords("ok", c.rms, Sensitivity, 1, 20).segments # << >>
  IN \/ c.extractExit # "ok"
     \/ c.detectExit # "ok"
     \/ found /\ c.probeExit # "ok"
     \/ found /\ c.return.return.encoded /\ c.encodeExit # "ok"

\* C32: when an engine run of the filler-word stage fails (extraction of
\* the temporary audio, level analysis, duration probe or trim), the stage
\* hands on the clip it was given; a failed duration probe never gives a
\* trimmed clip that lacks content outside the detected fillers.
C32_FailureKeepsArtifact ==
  (fillerStageCall.called /\ fillerStageCall.fileExists /\ StageRunFailed)
    => LET r == fillerStageCall.return
       IN /\ ~(r.return.success /\ r.return.outputPath = "outputPath")
          /\ r.return.encoded
               => Covered(r.keepSegments)
                    = (0..(Len(fillerStageCall.rms) - 1))
                        \ Covered(detectFillerWords("ok", fillerStageCall.rms,
                                                    Sensitivity, 1, 20).segments)

\* the probe failed, and the trimmed clip ends where the last filler ends
C32_TailLostOnFailedProbe ==
  /\ fillerStageCall.called /\ fillerStageCall.probeExit = "failed"
  /\ fillerStageCall.extractExit = "ok" /\ fillerStageCall.detectExit = "ok"
  /\ fillerStageCall.return.return = TrimReturn(TRUE, "outputPath", TRUE)
  /\ Len(fillerStageCall.rms) = 5
  /\ fillerStageCall.return.keepSegments = << [start |-> 0, end |-> 1] >>

\* with every run succeeding the trimmed clip is the clip without its fillers
C32_AllRunsOkKeepsTheRest ==
  (fillerStageCall.called /\ fillerStageCall.fileExists /\ ~StageRunFailed
     /\ fillerStageCall.return.return.encoded)
    => Covered(fillerStageCall.return.keepSegments)
         = (0..(Len(fillerStageCall.rms) - 1))
             \ Covered(detectFillerWords("ok", fillerStageCall.rms,
                                         Sensitivity, 1, 20).segments)

\* C33: the temporary audio that the filler-word stage creates for the
\* analysis no longer exists when the stage returns, on every path,
\* also when the level analysis or a later step raises.
C33_TempAudioDeleted ==
  (fillerStageCall.called /\ fillerStageCall.return.created)
    => ~fillerStageCall.return.tempAudio

\* the level analysis could not be started: the stage returns a failure
\* and the temporary audio is still there
C33_TempAudioLeft ==
  /\ fillerStageCall.called /\ fillerStageCall.extractExit = "ok"
  /\ fillerStageCall.detectExit = "spawn error"
  /\ ~fillerStageCall.return.return.success
  /\ fillerStageCall.return.tempAudio

\* the temporary audio is deleted whenever the level analysis returns
C33_DeletedWhenAnalysisReturns ==
  (fillerStageCall.called /\ fillerStageCall.return.created
     /\ fillerStageCall.detectExit # "spawn error")
    => ~fillerStageCall.return.tempAudio

\* the tracker as the requests of id alone would have left it
Alone(m, id) == [x \in DOMAIN m \cap {id} |-> m[x]]

\* C35: with updates of several request ids interleaved in any order, the
\* entry of each id goes through the states it would go through alone: a
\* step changes the entry of an id only if it is an update for that id, the
\* new entry is then the one the update gives on a tracker holding that id
\* alone, and an update without a request id changes no entry.
C35_IdsDoNotInterfere ==
  [][/\ \A id \in Ids :
          IF lastCall'.op = "update" /\ lastCall'.id = id
          THEN Alone(progressMap', id)
                 = updateProgress(Alone(progressMap, id), id, lastCall'.update)
          ELSE Alone(progressMap', id) = Alone(progressMap, id)
     /\ (lastCall'.op = "update" /\ lastCall'.id = NoId)
          => progressMap' = progressMap]_vars

\* r2 has just been updated while r1 holds a finished entry of its own
C35_Witness ==
  /\ lastCall.op = "update" /\ lastCall.id = "r2"
  /\ lastCall.update = [percent |-> 100, done |-> FALSE]
  /\ "r1" \in DOMAIN progressMap /\ "r2" \in DOMAIN progressMap
  /\ progressMap["r1"] = [percent |-> 0, message |-> "m", done |-> TRUE]
  /\ progressMap["r2"] = [percent |-> 100, message |-> "", done |-> FALSE]

\* the run has answered and, with a request id, its entry is done
Terminated ==
  /\ pc = "done" /\ Len(responses) = 1
  /\ requestId # NoId
       => requestId \in DOMAIN progressMap /\ progressMap[requestId].done

\* every run sends its terminal response and sets done on its entry
RunTerminates == (route = "process-video") ~> Terminated

\* pollTranscription returns only when the status it read is 'completed'
ReturnsOnCompleted == poll.phase = "returned" => poll.seen = "completed"

\* C38 as stated: with every engine run and service request ending and the
\* status reaching 'completed' or 'error', every /process-video run sends
\* its terminal response and sets done on its tracker entry;
\* pollTranscription returns only on status 'completed' and raises only on
\* status 'error'.
C38_RaisesOnlyOnError ==
  /\ RunTerminates
  /\ [](ReturnsOnCompleted
          /\ (poll.raisedBy = "pollTranscription" => poll.seen = "error"))

\* C38, amended: ... pollTranscription returns only on status 'completed'
\* and raises only on status 'error' or when a status request fails.
C38_TerminatesAndPollExits ==
  /\ RunTerminates
  /\ [](ReturnsOnCompleted
          /\ (poll.raisedBy = "pollTranscription"
                => poll.seen \in { "error", "request failed" }))

\* a run that waited between two status requests, read 'completed' and
\* ended with its success response and a finished entry
C38_Witness ==
  /\ Terminated /\ requestId # NoId
  /\ poll.phase = "returned" /\ poll.slept /\ poll.seen = "completed"
  /\ responses[1].success

====
